---------------------------- MODULE Spec2Model ----------------------------
(***************************************************************************)
(* Model of the hyperscanning repository's two algorithmic cores:          *)
(*   - hyper.annotations.palign_core  (IPU segments and full-coverage tier)*)
(*   - hyper.preprocessing.metadata   (partner alignment, event conversion)*)
(*                                                                         *)
(* Conventions.  Times are exact multiples of one tick, so the float       *)
(* comparisons and subtractions of the source are exact integer ones.     *)
(* A Python str is a sequence of one-character strings.  A call that       *)
(* raises is the record Raise(kind); a call that returns is Ok(value).     *)
(***************************************************************************)
EXTENDS Integers, Sequences, FiniteSets, TLC

VARIABLES
    pc,             \* position of the modelled caller
    t_start,        \* apply_min_ipu_and_render_full_tier: t_start
    t_end,          \* apply_min_ipu_and_render_full_tier: t_end
    ipu_segments,   \* apply_min_ipu_and_render_full_tier: ipu_segments
    min_ipu_s,      \* apply_min_ipu_and_render_full_tier: min_ipu_s
    tier,           \* what apply_min_ipu_and_render_full_tier returned or raised
    tokens,         \* build_ipu_segments_from_tokens: tokens
    include_laughter,       \* build_ipu_segments_from_tokens: include_laughter
    include_noise,          \* build_ipu_segments_from_tokens: include_noise
    include_filled_pause,   \* build_ipu_segments_from_tokens: include_filled_pause
    min_silence_s,  \* build_ipu_segments_from_tokens: min_silence_s
    segments,       \* what build_ipu_segments_from_tokens returned or raised
    self_ipu,       \* make_metadata: self_ipu
    other_ipu,      \* make_metadata: other_ipu
    time_lock,      \* make_metadata: time_lock
    anchor,         \* make_metadata: anchor
    margin_s,       \* make_metadata: margin_s, when it is a finite float
    margin_kind,    \* make_metadata: margin_s is "float", "nan", "+inf" or "-inf"
    metadata,       \* what make_metadata returned or raised
    metadata_df,    \* metadata_df_to_mne_events: metadata_df
    sfreq_hz,       \* metadata_df_to_mne_events: sfreq_hz
    first_samp,     \* metadata_df_to_mne_events: first_samp
    event_id,       \* metadata_df_to_mne_events: event_id
    events,         \* what metadata_df_to_mne_events returned or raised
    token_label,    \* _is_token_in_ipu: token
    token_in_ipu,   \* what _is_token_in_ipu returned
    ipu_path,       \* infer_partner_id_and_run_from_ipu_path: ipu_path.stem
    partner,        \* what infer_partner_id_and_run_from_ipu_path returned or raised
    min_ipu_s_2,    \* min_ipu_s of a second rendering of the same segments
    tier_2,         \* what the second rendering returned or raised
    min_silence_s_2,    \* min_silence_s of a second build from the same tokens
    segments_2,     \* what the second build returned or raised
    remerged,       \* the second pass run again on the returned segments
    raw_given,      \* make_metadata_and_events_from_self_ipu: a raw path was passed
    partner_exists, \* the inferred partner IPU CSV is on disk
    raw_readable,   \* mne.io.read_raw can read the raw recording
    tsv_file,       \* the metadata TSV: <<>> until written, then <<table>>
    npy_file,       \* the events NPY: <<>> until written, then <<array>>
    entry_error,    \* the exception make_metadata_and_events_from_self_ipu raised
    steps           \* the steps the entry point has taken so far

tierVars == <<t_start, t_end, ipu_segments, min_ipu_s, tier>>
buildVars == <<tokens, include_laughter, include_noise, include_filled_pause,
               min_silence_s, segments>>
metaVars == <<self_ipu, other_ipu, time_lock, anchor, margin_s, margin_kind,
              metadata>>
eventVars == <<metadata_df, sfreq_hz, first_samp, event_id, events>>
classifyVars == <<token_label, token_in_ipu>>
inferVars == <<ipu_path, partner>>
rerenderVars == <<min_ipu_s_2, tier_2>>
rebuildVars == <<min_silence_s_2, segments_2, remerged>>
entryVars == <<raw_given, partner_exists, raw_readable, tsv_file, npy_file,
               entry_error, steps>>
vars == <<pc, tierVars, buildVars, metaVars, eventVars, classifyVars, inferVars,
          rerenderVars, rebuildVars, entryVars>>

---------------------------------------------------------------------------
(* Bounds of the model *)

MaxTime == 3
MaxSegs == 2
MaxTokTime == 2
MaxTokens == 5
MaxRowTime == 3
MaxRows == 3
MaxMargin == 2
MaxStampNum == 5
MaxStamps == 4
MaxLabelLen == 3
MaxIdLen == 3
MaxRunLen == 2
MaxFlagTokens == 3
MaxCallTokens == 2
MaxPipeTokens == 3
MaxEntryRows == 2

---------------------------------------------------------------------------
(* Generic helpers *)

Max(a, b) == IF a >= b THEN a ELSE b
Min(a, b) == IF a <= b THEN a ELSE b
Abs(x) == IF x < 0 THEN -x ELSE x

SeqsUpTo(S, n) == UNION {[1..k -> S] : k \in 0..n}
Range(f) == {f[i] : i \in DOMAIN f}

\* error is the exception's type and message the head of its text
Ok(v) == [ok |-> TRUE, value |-> v, error |-> "", message |-> ""]
RaiseMsg(kind, msg) == [ok |-> FALSE, value |-> <<>>, error |-> kind,
                        message |-> msg]
Raise(kind) == RaiseMsg(kind, "")
NotCalled == RaiseMsg("not called", "")

\* A raise whose message interpolates column names: named is the set of
\* columns the message names as missing, found is <<columns>> when the
\* message also lists the columns of the table and <<>> when it does not.
RaiseColumns(kind, msg, named, found) ==
    [ok |-> FALSE, value |-> <<>>, error |-> kind, message |-> msg,
     named |-> named, found |-> found]

---------------------------------------------------------------------------
(* palign_core: constants and types *)

SILENCE_LABEL == <<"#">>
IPU_LABEL == <<"I", "P", "U">>

Interval(s, e, txt) == [start |-> s, end |-> e, text |-> txt]

---------------------------------------------------------------------------
(* palign_core.apply_min_ipu_and_render_full_tier *)

\* Variant of the first loop: the segments lasting at most mi are the ones
\* kept.
RECURSIVE ClampKeptShort(_, _, _, _)
ClampKeptShort(segs, ts, te, mi) ==
    IF segs = <<>> THEN <<>>
    ELSE LET s == Head(segs)[1]
             e == Head(segs)[2]
             rest == ClampKeptShort(Tail(segs), ts, te, mi)
         IN  IF e <= s THEN rest
             ELSE IF (e - s) <= mi THEN <<<<Max(ts, s), Min(te, e)>>>> \o rest
             ELSE rest

\* Variant of the first loop: a segment lasting exactly mi is dropped too.
RECURSIVE ClampKeptStrict(_, _, _, _)
ClampKeptStrict(segs, ts, te, mi) ==
    IF segs = <<>> THEN <<>>
    ELSE LET s == Head(segs)[1]
             e == Head(segs)[2]
             rest == ClampKeptStrict(Tail(segs), ts, te, mi)
         IN  IF e <= s THEN rest
             ELSE IF (e - s) > mi THEN <<<<Max(ts, s), Min(te, e)>>>> \o rest
             ELSE rest

\* Variant of the first loop: the kept segments are not clamped.
RECURSIVE KeptUnclamped(_, _, _, _)
KeptUnclamped(segs, ts, te, mi) ==
    IF segs = <<>> THEN <<>>
    ELSE LET s == Head(segs)[1]
             e == Head(segs)[2]
             rest == KeptUnclamped(Tail(segs), ts, te, mi)
         IN  IF e <= s THEN rest
             ELSE IF (e - s) >= mi THEN <<<<s, e>>>> \o rest
             ELSE rest

\* The first loop: drop malformed and too-short segments, clamp the rest.
RECURSIVE ClampKept(_, _, _, _)
ClampKept(segs, ts, te, mi) ==
    IF segs = <<>> THEN <<>>
    ELSE LET s == Head(segs)[1]
             e == Head(segs)[2]
             rest == ClampKept(Tail(segs), ts, te, mi)
         IN  IF e <= s THEN rest
             ELSE IF (e - s) >= mi THEN <<<<Max(ts, s), Min(te, e)>>>> \o rest
             ELSE rest

\* kept = [(s, e) for s, e in kept if e > s]
PositiveKept(kept) == SelectSeq(kept, LAMBDA p : p[2] > p[1])

\* The rendering loop: state is the output so far and the cursor.
RECURSIVE RenderLoop(_, _, _, _, _)
RenderLoop(kept, cursor, out, ipu_label, silence_label) ==
    IF kept = <<>> THEN [out |-> out, cursor |-> cursor]
    ELSE LET s == Head(kept)[1]
             e == Head(kept)[2]
             gap == IF s > cursor
                    THEN <<Interval(cursor, s, silence_label)>>
                    ELSE <<>>
         IN  RenderLoop(Tail(kept), e,
                        out \o gap \o <<Interval(s, e, ipu_label)>>,
                        ipu_label, silence_label)

\* The trailing silence and the final removal of zero/negative durations.
RenderFullTier(kept, ts, te, ipu_label, silence_label) ==
    LET r == RenderLoop(kept, ts, <<>>, ipu_label, silence_label)
        out == IF r.cursor < te
               THEN Append(r.out, Interval(r.cursor, te, silence_label))
               ELSE r.out
    IN  SelectSeq(out, LAMBDA itv : itv.end > itv.start)

apply_min_ipu_and_render_full_tier(ts, te, segs, mi, ipu_label, silence_label) ==
    IF te < ts THEN RaiseMsg("ValueError", "t_end must be >= t_start")
    ELSE IF mi < 0 THEN RaiseMsg("ValueError", "min_ipu_s must be >= 0")
    ELSE Ok(RenderFullTier(PositiveKept(ClampKept(segs, ts, te, mi)),
                           ts, te, ipu_label, silence_label))

---------------------------------------------------------------------------
(* palign_core._is_token_in_ipu *)

Whitespace == {" ", "\t", "\n"}

\* str.strip(): leading and trailing whitespace removed
RECURSIVE LStrip(_)
LStrip(t) == IF t # <<>> /\ Head(t) \in Whitespace THEN LStrip(Tail(t)) ELSE t

RECURSIVE RStrip(_)
RStrip(t) ==
    IF t # <<>> /\ t[Len(t)] \in Whitespace
    THEN RStrip(SubSeq(t, 1, Len(t) - 1))
    ELSE t

\* Variant of str.strip(): only leading whitespace is removed.
StripLeading(t) == LStrip(t)

Strip(t) == RStrip(LStrip(t))

\* str.lower() on the letters the model draws
LowerChar(c) ==
    CASE c = "F" -> "f"
      [] c = "P" -> "p"
      [] c = "A" -> "a"
      [] OTHER -> c

Lower(t) == [i \in 1..Len(t) |-> LowerChar(t[i])]

is_token_in_ipu(token, inc_laughter, inc_noise, inc_filled_pause) ==
    LET t == Strip(token)
    IN  IF t = <<>> THEN FALSE
        ELSE IF t = SILENCE_LABEL THEN FALSE
        ELSE IF t = <<"@">> THEN inc_laughter
        ELSE IF t = <<"*">> THEN inc_noise
        ELSE IF Lower(t) = <<"f", "p">> THEN inc_filled_pause
        ELSE TRUE

---------------------------------------------------------------------------
(* palign_core.build_ipu_segments_from_tokens *)

\* Variant of the first pass: an activity token moves the end of the open
\* run to its own end, without max().
RECURSIVE FirstPassLastEnd(_, _, _, _, _, _)
FirstPassLastEnd(toks, cur, raw, il, inz, ifp) ==
    IF toks = <<>>
    THEN IF cur # <<>> THEN Append(raw, cur) ELSE raw
    ELSE LET itv == Head(toks)
             in_ipu == is_token_in_ipu(itv.text, il, inz, ifp)
         IN  IF in_ipu
             THEN IF cur = <<>>
                  THEN FirstPassLastEnd(Tail(toks), <<itv.start, itv.end>>, raw,
                                        il, inz, ifp)
                  ELSE FirstPassLastEnd(Tail(toks), <<cur[1], itv.end>>,
                                        raw, il, inz, ifp)
             ELSE IF cur # <<>>
                  THEN FirstPassLastEnd(Tail(toks), <<>>, Append(raw, cur),
                                        il, inz, ifp)
                  ELSE FirstPassLastEnd(Tail(toks), <<>>, raw, il, inz, ifp)

\* First pass.  cur is <<>> for current_start = current_end = None, and
\* <<current_start, current_end>> while a run is open.
RECURSIVE FirstPass(_, _, _, _, _, _)
FirstPass(toks, cur, raw, il, inz, ifp) ==
    IF toks = <<>>
    THEN IF cur # <<>> THEN Append(raw, cur) ELSE raw
    ELSE LET itv == Head(toks)
             in_ipu == is_token_in_ipu(itv.text, il, inz, ifp)
         IN  IF in_ipu
             THEN IF cur = <<>>
                  THEN FirstPass(Tail(toks), <<itv.start, itv.end>>, raw,
                                 il, inz, ifp)
                  ELSE FirstPass(Tail(toks), <<cur[1], Max(cur[2], itv.end)>>,
                                 raw, il, inz, ifp)
             ELSE IF cur # <<>>
                  THEN FirstPass(Tail(toks), <<>>, Append(raw, cur),
                                 il, inz, ifp)
                  ELSE FirstPass(Tail(toks), <<>>, raw, il, inz, ifp)

raw_segments(toks, il, inz, ifp) == FirstPass(toks, <<>>, <<>>, il, inz, ifp)

\* Variant of the second pass that merges over the long gaps instead of the
\* short ones.
RECURSIVE MergePassFar(_, _, _)
MergePassFar(rest, merged, ms) ==
    IF rest = <<>> THEN merged
    ELSE LET start == Head(rest)[1]
             end == Head(rest)[2]
             prev_start == merged[Len(merged)][1]
             prev_end == merged[Len(merged)][2]
             gap == start - prev_end
         IN  IF gap >= ms
             THEN MergePassFar(Tail(rest),
                               [merged EXCEPT ![Len(merged)] =
                                    <<prev_start, Max(prev_end, end)>>],
                               ms)
             ELSE MergePassFar(Tail(rest), Append(merged, <<start, end>>), ms)

\* Variant of the second pass that measures the gap from the previous
\* run's start.
RECURSIVE MergePassFromStart(_, _, _)
MergePassFromStart(rest, merged, ms) ==
    IF rest = <<>> THEN merged
    ELSE LET start == Head(rest)[1]
             end == Head(rest)[2]
             prev_start == merged[Len(merged)][1]
             prev_end == merged[Len(merged)][2]
             gap == start - prev_start
         IN  IF gap < ms
             THEN MergePassFromStart(Tail(rest),
                                     [merged EXCEPT ![Len(merged)] =
                                          <<prev_start, Max(prev_end, end)>>],
                                     ms)
             ELSE MergePassFromStart(Tail(rest),
                                     Append(merged, <<start, end>>), ms)

\* Variant of the second pass that also merges over a gap equal to ms.
RECURSIVE MergePassLe(_, _, _)
MergePassLe(rest, merged, ms) ==
    IF rest = <<>> THEN merged
    ELSE LET start == Head(rest)[1]
             end == Head(rest)[2]
             prev_start == merged[Len(merged)][1]
             prev_end == merged[Len(merged)][2]
             gap == start - prev_end
         IN  IF gap <= ms
             THEN MergePassLe(Tail(rest),
                              [merged EXCEPT ![Len(merged)] =
                                   <<prev_start, Max(prev_end, end)>>],
                              ms)
             ELSE MergePassLe(Tail(rest), Append(merged, <<start, end>>), ms)

\* Second pass: merged starts as [raw_segments[0]], rest is raw_segments[1:].
\* Variant of the second pass: only a gap of 0 <= gap < ms is merged, a run
\* that starts before the end of the previous one is kept apart.
RECURSIVE MergePassForward(_, _, _)
MergePassForward(rest, merged, ms) ==
    IF rest = <<>> THEN merged
    ELSE LET start == Head(rest)[1]
             end == Head(rest)[2]
             prev_start == merged[Len(merged)][1]
             prev_end == merged[Len(merged)][2]
             gap == start - prev_end
         IN  IF 0 <= gap /\ gap < ms
             THEN MergePassForward(Tail(rest),
                                   [merged EXCEPT ![Len(merged)] =
                                        <<prev_start, Max(prev_end, end)>>],
                                   ms)
             ELSE MergePassForward(Tail(rest), Append(merged, <<start, end>>),
                                   ms)

RECURSIVE MergePass(_, _, _)
MergePass(rest, merged, ms) ==
    IF rest = <<>> THEN merged
    ELSE LET start == Head(rest)[1]
             end == Head(rest)[2]
             prev_start == merged[Len(merged)][1]
             prev_end == merged[Len(merged)][2]
             gap == start - prev_end
         IN  IF gap < ms
             THEN MergePass(Tail(rest),
                            [merged EXCEPT ![Len(merged)] =
                                 <<prev_start, Max(prev_end, end)>>],
                            ms)
             ELSE MergePass(Tail(rest), Append(merged, <<start, end>>), ms)

\* Variant of build_ipu_segments_from_tokens: min_silence_s is validated
\* only after the first pass, when there are runs to merge.
build_validate_late(toks, il, inz, ifp, ms) ==
    LET raw == raw_segments(toks, il, inz, ifp)
    IN  IF raw = <<>> THEN Ok(<<>>)
        ELSE IF ms < 0 THEN RaiseMsg("ValueError", "min_silence_s must be >= 0")
        ELSE Ok(MergePass(Tail(raw), <<Head(raw)>>, ms))

build_ipu_segments_from_tokens(toks, il, inz, ifp, ms) ==
    IF ms < 0 THEN RaiseMsg("ValueError", "min_silence_s must be >= 0")
    ELSE LET raw == raw_segments(toks, il, inz, ifp)
         IN  IF raw = <<>> THEN Ok(<<>>)
             ELSE Ok(MergePass(Tail(raw), <<Head(raw)>>, ms))

---------------------------------------------------------------------------
(* metadata: constants and the table model                                 *)
(*                                                                         *)
(* A DataFrame is [columns |-> set of names, rows |-> sequence of rows];   *)
(* a row is a function from the column names to cells.  start and end are  *)
(* exact tick counts.  A float cell that may be NaN is <<x>> for the       *)
(* number x and <<>> for NaN.                                              *)

COLUMN_LIST == <<"duration", "n_syllables", "rate">>
PLACEHOLDER_ANNOTATION == "#"

NaN == <<>>
Float(x) == <<x>>

\* start and end cells are never negative; a start or end cell that
\* pd.read_csv found empty (NaN) is NaNTime
NaNTime == 0 - 1

DataFrame(cols, rows) == [columns |-> cols, rows |-> rows]

validate_time_lock(tl) == tl \in {"onset", "offset"}
validate_anchor(an) == an \in {"self", "other"}
\* kind is "float" for a finite margin_s of value m, else "nan", "+inf" or
\* "-inf": not np.isfinite(margin_s) or margin_s <= 0 raises
validate_margin(kind, m) == ~(kind # "float" \/ m <= 0)

Prefixed(speaker, col) == speaker \o "_" \o col

\* DataFrame.rename(columns={col: f"{speaker}_{col}" for col in COLUMN_LIST})
RenameRow(row, speaker) ==
    LET renamed == Range(COLUMN_LIST) \cap DOMAIN row
        kept == (DOMAIN row) \ renamed
    IN  [c \in kept \cup {Prefixed(speaker, col) : col \in renamed} |->
            IF c \in kept THEN row[c]
            ELSE row[CHOOSE col \in renamed : Prefixed(speaker, col) = c]]

\* Variant of the cleaning: placeholder rows are kept.
prefix_ipu_keep_placeholders(ipu, speaker) ==
    LET required_cols == {"start", "end", "annotation"} \cup Range(COLUMN_LIST)
        missing == required_cols \ ipu.columns
    IN  IF missing # {}
        THEN RaiseColumns("ValueError", "IPU table missing required columns",
                          missing, <<>>)
        ELSE Ok(DataFrame(
                 (ipu.columns \ Range(COLUMN_LIST))
                     \cup {Prefixed(speaker, col) : col \in Range(COLUMN_LIST)},
                 [i \in 1..Len(ipu.rows) |-> RenameRow(ipu.rows[i], speaker)]))

clean_and_prefix_ipu(ipu, speaker) ==
    LET required_cols == {"start", "end", "annotation"} \cup Range(COLUMN_LIST)
        missing == required_cols \ ipu.columns
        ipu_clean == SelectSeq(ipu.rows,
                         LAMBDA r : r["annotation"] # PLACEHOLDER_ANNOTATION)
    IN  IF missing # {}
        THEN RaiseColumns("ValueError", "IPU table missing required columns",
                          missing, <<>>)
        ELSE Ok(DataFrame(
                 (ipu.columns \ Range(COLUMN_LIST))
                     \cup {Prefixed(speaker, col) : col \in Range(COLUMN_LIST)},
                 [i \in 1..Len(ipu_clean) |-> RenameRow(ipu_clean[i], speaker)]))

---------------------------------------------------------------------------
(* metadata._combine_annotations *)

OutCols(partner_prefix) ==
    {Prefixed(partner_prefix, c) : c \in Range(COLUMN_LIST)} \cup {"latency"}

\* Variants of the window: closed at both ends, and open at both ends.
InWindowClosedUpper(origin_t, target_t, m) ==
    (origin_t - m <= target_t) /\ (target_t <= origin_t + m)

InWindowOpenLower(origin_t, target_t, m) ==
    (origin_t - m < target_t) /\ (target_t < origin_t + m)

\* Variant of the window: twice the margin on either side.
InWindowDoubleMargin(origin_t, target_t, m) ==
    (origin_t - 2 * m <= target_t) /\ (target_t < origin_t + 2 * m)

\* ref.loc[(origin_t - margin_s <= ref[target_col]) & (ref[target_col] < origin_t + margin_s)]
\* a comparison with NaN is False
InWindow(origin_t, target_t, m) ==
    /\ origin_t # NaNTime
    /\ target_t # NaNTime
    /\ (origin_t - m <= target_t) /\ (target_t < origin_t + m)

\* Variant of the selection: the first row of the window, whatever its
\* distance.
IdxFirst(diffs) == 1

\* Variant of the selection: the last position holding the minimum.
IdxMinLast(diffs) ==
    CHOOSE i \in 1..Len(diffs) :
        /\ \A j \in 1..Len(diffs) : diffs[i] <= diffs[j]
        /\ \A j \in (i + 1)..Len(diffs) : diffs[j] > diffs[i]

\* Series.idxmin(): the first position holding the minimum
IdxMin(diffs) ==
    CHOOSE i \in 1..Len(diffs) :
        /\ \A j \in 1..Len(diffs) : diffs[i] <= diffs[j]
        /\ \A j \in 1..(i - 1) : diffs[j] > diffs[i]

\* Variant of the fallback: zeros instead of NaN when the window is empty.
find_adjacent_zero_fill(row, ref, origin_col, target_col, partner_prefix, m) ==
    LET origin_t == row[origin_col]
        match == SelectSeq(ref, LAMBDA r : InWindow(origin_t, r[target_col], m))
    IN  IF Len(match) = 0
        THEN [c \in OutCols(partner_prefix) |-> Float(0)]
        ELSE LET diffs == [i \in 1..Len(match) |->
                              Abs(origin_t - match[i][target_col])]
                 best == match[IdxMin(diffs)]
             IN  [c \in OutCols(partner_prefix) |->
                     IF c = "latency"
                     THEN Float(origin_t - best[target_col])
                     ELSE best[c]]

find_adjacent(row, ref, origin_col, target_col, partner_prefix, m) ==
    LET origin_t == row[origin_col]
        match == SelectSeq(ref, LAMBDA r : InWindow(origin_t, r[target_col], m))
    IN  IF Len(match) = 0
        THEN [c \in OutCols(partner_prefix) |-> NaN]
        ELSE LET diffs == [i \in 1..Len(match) |->
                              Abs(origin_t - match[i][target_col])]
                 best == match[IdxMin(diffs)]
             IN  [c \in OutCols(partner_prefix) |->
                     IF c = "latency"
                     THEN Float(origin_t - best[target_col])
                     ELSE best[c]]

\* Variant of the row loop: a partner row that was selected is removed from
\* the reference table before the next anchor row is matched.
RECURSIVE ConsumingRows(_, _, _, _, _, _)
ConsumingRows(base_rows, ref_rows, origin_col, target_col, partner_prefix, m) ==
    IF base_rows = <<>> THEN <<>>
    ELSE LET row == Head(base_rows)
             origin_t == row[origin_col]
             window == {j \in 1..Len(ref_rows) :
                           InWindow(origin_t, ref_rows[j][target_col], m)}
             best == CHOOSE j \in window : \A k \in window :
                         \/ Abs(origin_t - ref_rows[j][target_col])
                                < Abs(origin_t - ref_rows[k][target_col])
                         \/ /\ Abs(origin_t - ref_rows[j][target_col])
                                   = Abs(origin_t - ref_rows[k][target_col])
                            /\ j <= k
             left == IF window = {} THEN ref_rows
                     ELSE SubSeq(ref_rows, 1, best - 1)
                              \o SubSeq(ref_rows, best + 1, Len(ref_rows))
         IN  <<find_adjacent(row, ref_rows, origin_col, target_col,
                             partner_prefix, m) @@ row>>
                 \o ConsumingRows(Tail(base_rows), left, origin_col, target_col,
                                  partner_prefix, m)

combine_annotations_consuming(self_df, other_df, tl, an, m) ==
    LET base_df == IF an = "self" THEN self_df ELSE other_df
        ref_df == IF an = "self" THEN other_df ELSE self_df
        origin_col == IF tl = "onset" THEN "start" ELSE "end"
        target_col == IF tl = "onset" THEN "end" ELSE "start"
        partner_prefix == IF an = "self" THEN "other" ELSE "self"
    IN  DataFrame(
            base_df.columns \cup OutCols(partner_prefix),
            ConsumingRows(base_df.rows, ref_df.rows, origin_col, target_col,
                          partner_prefix, m))

combine_annotations(self_df, other_df, tl, an, m) ==
    LET base_df == IF an = "self" THEN self_df ELSE other_df
        ref_df == IF an = "self" THEN other_df ELSE self_df
        origin_col == IF tl = "onset" THEN "start" ELSE "end"
        target_col == IF tl = "onset" THEN "end" ELSE "start"
        partner_prefix == IF an = "self" THEN "other" ELSE "self"
    IN  DataFrame(
            base_df.columns \cup OutCols(partner_prefix),
            [i \in 1..Len(base_df.rows) |->
                find_adjacent(base_df.rows[i], ref_df.rows, origin_col,
                              target_col, partner_prefix, m)
                @@ base_df.rows[i]])

---------------------------------------------------------------------------
(* metadata._finalize_combined_metadata and metadata.make_metadata *)

\* Variant of the rate difference: the sign is kept.
SignedDiff(a, b) == IF a = NaN \/ b = NaN THEN NaN ELSE Float(a[1] - b[1])

\* (combined["self_rate"] - combined["other_rate"]).abs(): NaN propagates
AbsDiff(a, b) == IF a = NaN \/ b = NaN THEN NaN ELSE Float(Abs(a[1] - b[1]))

FinalizeRow(row, tl) ==
    LET origin_col == IF tl = "onset" THEN "start" ELSE "end"
        dropped == {"tier", "annotation", IF tl = "onset" THEN "end" ELSE "start"}
        kept == (DOMAIN row) \ (dropped \cup {origin_col})
    IN  [c \in kept \cup {"timestamp", "abs_diff"} |->
            IF c = "timestamp" THEN row[origin_col]
            ELSE IF c = "abs_diff" THEN AbsDiff(row["self_rate"], row["other_rate"])
            ELSE row[c]]

finalize_combined_metadata(combined, tl) ==
    LET origin_col == IF tl = "onset" THEN "start" ELSE "end"
        dropped == {"tier", "annotation", IF tl = "onset" THEN "end" ELSE "start"}
    IN  DataFrame(
            ((combined.columns \ (dropped \cup {origin_col}))
                 \cup {"timestamp", "abs_diff"}),
            [i \in 1..Len(combined.rows) |-> FinalizeRow(combined.rows[i], tl)])

\* Variant of make_metadata: the tables are cleaned before the arguments
\* are validated.
make_metadata_clean_first(self_tbl, other_tbl, tl, an, kind, m) ==
    LET self_clean == clean_and_prefix_ipu(self_tbl, "self")
        other_clean == clean_and_prefix_ipu(other_tbl, "other")
    IN  IF ~self_clean.ok THEN self_clean
        ELSE IF ~other_clean.ok THEN other_clean
        ELSE IF ~validate_time_lock(tl)
        THEN RaiseMsg("ValueError", "time_lock must be 'onset' or 'offset'")
        ELSE IF ~validate_anchor(an)
        THEN RaiseMsg("ValueError", "anchor must be 'self' or 'other'")
        ELSE IF ~validate_margin(kind, m)
        THEN RaiseMsg("ValueError", "margin_s must be a finite positive number")
        ELSE Ok(finalize_combined_metadata(
                    combine_annotations(self_clean.value, other_clean.value,
                                        tl, an, m),
                    tl))

make_metadata(self_tbl, other_tbl, tl, an, kind, m) ==
    IF ~validate_time_lock(tl)
    THEN RaiseMsg("ValueError", "time_lock must be 'onset' or 'offset'")
    ELSE IF ~validate_anchor(an)
    THEN RaiseMsg("ValueError", "anchor must be 'self' or 'other'")
    ELSE IF ~validate_margin(kind, m)
    THEN RaiseMsg("ValueError", "margin_s must be a finite positive number")
    ELSE LET self_clean == clean_and_prefix_ipu(self_tbl, "self")
             other_clean == clean_and_prefix_ipu(other_tbl, "other")
         IN  IF ~self_clean.ok THEN self_clean
             ELSE IF ~other_clean.ok THEN other_clean
             ELSE Ok(finalize_combined_metadata(
                         combine_annotations(self_clean.value, other_clean.value,
                                             tl, an, m),
                         tl))

---------------------------------------------------------------------------
(* metadata.metadata_df_to_mne_events                                      *)
(*                                                                         *)
(* A cell of the timestamp column is [kind, num, den]: the float num/den   *)
(* seconds ("float"), NaN ("nan"), +Inf or -Inf ("+inf", "-inf"), a str    *)
(* that spells the number num/den ("numstr"), or any other str ("str").    *)

Cell(kind, num, den) == [kind |-> kind, num |-> num, den |-> den]

\* pd.to_numeric(..., errors="coerce") of one cell
ToNumeric(cell) ==
    CASE cell.kind = "numstr" -> Cell("float", cell.num, cell.den)
      [] cell.kind = "str" -> Cell("nan", 0, 1)
      [] OTHER -> cell

\* Variant of the finiteness filter: only NaN is dropped.
IsNotNan(cell) == cell.kind # "nan"

\* Variant of the finiteness filter: a timestamp of zero is dropped too.
IsFiniteNonZero(cell) == cell.kind = "float" /\ cell.num # 0

\* np.isfinite
IsFinite(cell) == cell.kind = "float"

\* Variant of the rounding: nearest integer, a tie goes away from zero.
RintAway(num, den) ==
    LET q == num \div den
        r == num % den
    IN  IF 2 * r < den THEN q
        ELSE IF 2 * r > den THEN q + 1
        ELSE IF num > 0 THEN q + 1 ELSE q

\* np.rint of num/den (den > 0): nearest integer, a tie goes to the even one
Rint(num, den) ==
    LET q == num \div den
        r == num % den
    IN  IF 2 * r < den THEN q
        ELSE IF 2 * r > den THEN q + 1
        ELSE IF q % 2 = 0 THEN q ELSE q + 1

metadata_df_to_mne_events(df, sfreq, first, timestamp_col, ev_id) ==
    IF timestamp_col \notin df.columns
    THEN RaiseColumns("ValueError", "metadata_df must contain column",
                      {timestamp_col}, <<df.columns>>)
    ELSE LET coerced == [i \in 1..Len(df.rows) |->
                            ToNumeric(df.rows[i][timestamp_col])]
             timestamps_s == SelectSeq(coerced, IsFinite)
         IN  Ok([i \in 1..Len(timestamps_s) |->
                    <<Rint(timestamps_s[i].num * sfreq, timestamps_s[i].den) + first,
                      0, ev_id>>])

---------------------------------------------------------------------------
(* metadata.infer_partner_id_and_run_from_ipu_path                         *)
(*                                                                         *)
(* The stem of the file name is "sub-" sub "_" task "run-" run "_ipu",     *)
(* with sub and run sequences of digit characters and task free of "sub-"  *)
(* and "run-".                                                             *)

DigitChars == <<"0", "1", "2", "3", "4", "5", "6", "7", "8", "9">>

\* the number of digits "sub-(\d{3})" captures, and the width of zfill(3)
PATTERN_ID_DIGITS == 3
ZFILL_WIDTH == 3

DigitValue(c) == (CHOOSE i \in 1..10 : DigitChars[i] = c) - 1

\* int() of a non-empty sequence of digit characters
RECURSIVE ParseInt(_)
ParseInt(digits) ==
    IF Len(digits) = 1 THEN DigitValue(digits[1])
    ELSE 10 * ParseInt(SubSeq(digits, 1, Len(digits) - 1))
             + DigitValue(digits[Len(digits)])

\* str() of an integer
RECURSIVE StrNat(_)
StrNat(n) ==
    IF n < 10 THEN <<DigitChars[n + 1]>>
    ELSE Append(StrNat(n \div 10), DigitChars[(n % 10) + 1])

Str(n) == IF n < 0 THEN <<"-">> \o StrNat(-n) ELSE StrNat(n)

\* str.zfill(width): zeros are inserted after a leading sign
RECURSIVE ZFill(_, _)
ZFill(t, width) ==
    IF Len(t) >= width THEN t
    ELSE IF t # <<>> /\ Head(t) \in {"-", "+"}
         THEN ZFill(<<Head(t), "0">> \o Tail(t), width)
         ELSE ZFill(<<"0">> \o t, width)

\* re.search(r"sub-(\d{3}).*run-(\d+)", stem): <<>> for None, else the two
\* groups
SearchPattern(stem) ==
    IF Len(stem.sub) >= PATTERN_ID_DIGITS /\ Len(stem.run) >= 1
    THEN <<SubSeq(stem.sub, 1, PATTERN_ID_DIGITS), stem.run>>
    ELSE <<>>

infer_partner_id_and_run_from_ipu_path(stem) ==
    LET match == SearchPattern(stem)
    IN  IF match = <<>>
        THEN RaiseMsg("RuntimeError", "IPU filename must match pattern")
        ELSE LET self_id_int == ParseInt(match[1])
                 run == match[2]
                 other_id_int == IF self_id_int % 2 = 0
                                 THEN self_id_int - 1
                                 ELSE self_id_int + 1
                 other_id == ZFill(Str(other_id_int), ZFILL_WIDTH)
             IN  Ok(<<other_id, run>>)

---------------------------------------------------------------------------
(* The values the variables of a component hold while a specification      *)
(* does not exercise it.                                                   *)

TierIdle ==
    /\ t_start = 0
    /\ t_end = 0
    /\ ipu_segments = <<>>
    /\ min_ipu_s = 0
    /\ tier = NotCalled

BuildIdle ==
    /\ tokens = <<>>
    /\ include_laughter = FALSE
    /\ include_noise = FALSE
    /\ include_filled_pause = TRUE
    /\ min_silence_s = 0
    /\ segments = NotCalled

IpuColumns == {"start", "end", "annotation"} \cup Range(COLUMN_LIST)

MetaIdle ==
    /\ self_ipu = DataFrame(IpuColumns, <<>>)
    /\ other_ipu = DataFrame(IpuColumns, <<>>)
    /\ time_lock = "onset"
    /\ anchor = "self"
    /\ margin_s = 1
    /\ margin_kind = "float"
    /\ metadata = NotCalled

EventIdle ==
    /\ metadata_df = DataFrame({"timestamp"}, <<>>)
    /\ sfreq_hz = 0
    /\ first_samp = 0
    /\ event_id = 1
    /\ events = NotCalled

ClassifyIdle ==
    /\ token_label = <<>>
    /\ token_in_ipu = NotCalled

\* the stem of an IPU file name, "sub-" sub "_" task "run-" run "_ipu"
Stem(sub, task, run) == [sub |-> sub, task |-> task, run |-> run]

InferIdle ==
    /\ ipu_path = Stem(<<>>, <<>>, <<>>)
    /\ partner = NotCalled

RerenderIdle ==
    /\ min_ipu_s_2 = 0
    /\ tier_2 = NotCalled

EntryIdle ==
    /\ raw_given = TRUE
    /\ partner_exists = TRUE
    /\ raw_readable = TRUE
    /\ tsv_file = <<>>
    /\ npy_file = <<>>
    /\ entry_error = ""
    /\ steps = <<>>

RebuildIdle ==
    /\ min_silence_s_2 = 0
    /\ segments_2 = NotCalled
    /\ remerged = NotCalled

---------------------------------------------------------------------------
(* Specification SpecTier: one call of the renderer on drawn arguments *)

Times == 0..MaxTime
Segments == Times \X Times
SegmentLists == SeqsUpTo(Segments, MaxSegs)

InitTier ==
    /\ pc = "render"
    /\ t_start \in Times
    /\ t_end \in Times
    /\ ipu_segments \in SegmentLists
    /\ min_ipu_s \in (-1)..MaxTime
    /\ tier = NotCalled
    /\ BuildIdle
    /\ MetaIdle
    /\ EventIdle
    /\ ClassifyIdle
    /\ InferIdle
    /\ RerenderIdle
    /\ RebuildIdle
    /\ EntryIdle

RenderTier ==
    /\ pc = "render"
    /\ tier' = apply_min_ipu_and_render_full_tier(
                   t_start, t_end, ipu_segments, min_ipu_s,
                   IPU_LABEL, SILENCE_LABEL)
    /\ pc' = "done"
    /\ UNCHANGED <<t_start, t_end, ipu_segments, min_ipu_s>>
    /\ UNCHANGED <<buildVars, metaVars, eventVars>>
    /\ UNCHANGED <<classifyVars, inferVars, rerenderVars, rebuildVars>>
    /\ UNCHANGED entryVars

NextTier == RenderTier

SpecTier == InitTier /\ [][NextTier]_vars

---------------------------------------------------------------------------
(* Specification SpecBuild: a time-ordered token list is read, then        *)
(* build_ipu_segments_from_tokens(tokens, min_silence_s=...) is called on  *)
(* it with the default flags.                                              *)

TokenTexts == {<<"a">>, <<"#">>}
TokenTimes == 0..MaxTokTime
TokenIntervals ==
    {Interval(s, e, txt) : s \in TokenTimes, e \in TokenTimes, txt \in TokenTexts}

\* the sort key of _read_tokensalign_intervals: (start, end)
KeyLeq(x, y) == x.start < y.start \/ (x.start = y.start /\ x.end <= y.end)

InitBuild ==
    /\ pc = "read"
    /\ BuildIdle
    /\ TierIdle
    /\ MetaIdle
    /\ EventIdle
    /\ ClassifyIdle
    /\ InferIdle
    /\ RerenderIdle
    /\ RebuildIdle
    /\ EntryIdle

\* One more entry of the sorted token list.
ReadToken ==
    /\ pc = "read"
    /\ Len(tokens) < MaxTokens
    /\ \E itv \in TokenIntervals :
          /\ itv.start <= itv.end
          /\ tokens # <<>> => KeyLeq(tokens[Len(tokens)], itv)
          /\ tokens' = Append(tokens, itv)
    /\ UNCHANGED <<pc, include_laughter, include_noise, include_filled_pause,
                   min_silence_s, segments>>
    /\ UNCHANGED <<tierVars, metaVars, eventVars>>
    /\ UNCHANGED <<classifyVars, inferVars, rerenderVars, rebuildVars>>
    /\ UNCHANGED entryVars

BuildSegments ==
    /\ pc = "read"
    /\ \E ms \in (-1)..MaxTokTime :
          /\ min_silence_s' = ms
          /\ segments' = build_ipu_segments_from_tokens(
                             tokens, include_laughter, include_noise,
                             include_filled_pause, ms)
    /\ pc' = "built"
    /\ UNCHANGED <<tokens, include_laughter, include_noise, include_filled_pause>>
    /\ UNCHANGED <<tierVars, metaVars, eventVars>>
    /\ UNCHANGED <<classifyVars, inferVars, rerenderVars, rebuildVars>>
    /\ UNCHANGED entryVars

NextBuild == ReadToken \/ BuildSegments

SpecBuild == InitBuild /\ [][NextBuild]_vars

---------------------------------------------------------------------------
(* Specification SpecMeta: the two IPU tables are loaded row by row, each  *)
(* in time order, then make_metadata is called on them.                    *)

\* A row of an IPU table: duration is end - start, the speaking rate grows
\* with the onset, n_syllables is rate * duration.
IpuRow(s, e, a) ==
    [start |-> s, end |-> e, annotation |-> a,
     duration |-> Float(e - s),
     n_syllables |-> Float((s + 1) * (e - s)),
     rate |-> Float(s + 1)]

RowTimes == 0..MaxRowTime
Annotations == {"a", PLACEHOLDER_ANNOTATION}
IpuRows == {IpuRow(s, e, a) : s \in RowTimes, e \in RowTimes, a \in Annotations}

CanAppendRow(tbl, row) ==
    /\ row["start"] < row["end"]
    /\ Len(self_ipu.rows) + Len(other_ipu.rows) < MaxRows
    /\ tbl.rows # <<>> =>
          LET last == tbl.rows[Len(tbl.rows)]
          IN  \/ last["start"] < row["start"]
              \/ (last["start"] = row["start"] /\ last["end"] <= row["end"])

InitMeta ==
    /\ pc = "load"
    /\ MetaIdle
    /\ TierIdle
    /\ BuildIdle
    /\ EventIdle
    /\ ClassifyIdle
    /\ InferIdle
    /\ RerenderIdle
    /\ RebuildIdle
    /\ EntryIdle

LoadSelfRow ==
    /\ pc = "load"
    /\ \E row \in IpuRows :
          /\ CanAppendRow(self_ipu, row)
          /\ self_ipu' = [self_ipu EXCEPT !.rows = Append(@, row)]
    /\ UNCHANGED <<pc, other_ipu, time_lock, anchor, margin_s, margin_kind,
                   metadata>>
    /\ UNCHANGED <<tierVars, buildVars, eventVars>>
    /\ UNCHANGED <<classifyVars, inferVars, rerenderVars, rebuildVars>>
    /\ UNCHANGED entryVars

LoadOtherRow ==
    /\ pc = "load"
    /\ \E row \in IpuRows :
          /\ CanAppendRow(other_ipu, row)
          /\ other_ipu' = [other_ipu EXCEPT !.rows = Append(@, row)]
    /\ UNCHANGED <<pc, self_ipu, time_lock, anchor, margin_s, margin_kind,
                   metadata>>
    /\ UNCHANGED <<tierVars, buildVars, eventVars>>
    /\ UNCHANGED <<classifyVars, inferVars, rerenderVars, rebuildVars>>
    /\ UNCHANGED entryVars

MakeMetadata ==
    /\ pc = "load"
    /\ \E tl \in {"onset", "offset"}, an \in {"self", "other"},
          m \in 1..MaxMargin :
          /\ time_lock' = tl
          /\ anchor' = an
          /\ margin_s' = m
          /\ margin_kind' = "float"
          /\ metadata' = make_metadata(self_ipu, other_ipu, tl, an, "float", m)
    /\ pc' = "done"
    /\ UNCHANGED <<self_ipu, other_ipu>>
    /\ UNCHANGED <<tierVars, buildVars, eventVars>>
    /\ UNCHANGED <<classifyVars, inferVars, rerenderVars, rebuildVars>>
    /\ UNCHANGED entryVars

NextMeta == LoadSelfRow \/ LoadOtherRow \/ MakeMetadata

SpecMeta == InitMeta /\ [][NextMeta]_vars

---------------------------------------------------------------------------
(* Specification SpecEvents: a timestamp column is filled cell by cell,    *)
(* then metadata_df_to_mne_events is called on it.                         *)

\* timestamps are drawn in tenths of a second
StampCells ==
    {Cell("float", n, 10) : n \in (-1)..MaxStampNum}
        \cup {Cell("nan", 0, 1), Cell("+inf", 0, 1), Cell("-inf", 0, 1),
              Cell("str", 0, 1), Cell("numstr", 5, 10)}

InitEvents ==
    /\ pc = "collect"
    /\ EventIdle
    /\ ClassifyIdle
    /\ InferIdle
    /\ RerenderIdle
    /\ RebuildIdle
    /\ EntryIdle
    /\ TierIdle
    /\ BuildIdle
    /\ MetaIdle

AddTimestamp ==
    /\ pc = "collect"
    /\ Len(metadata_df.rows) < MaxStamps
    /\ \E cell \in StampCells :
          metadata_df' = [metadata_df EXCEPT
                             !.rows = Append(@, [timestamp |-> cell])]
    /\ UNCHANGED <<pc, sfreq_hz, first_samp, event_id, events>>
    /\ UNCHANGED <<tierVars, buildVars, metaVars>>
    /\ UNCHANGED <<classifyVars, inferVars, rerenderVars, rebuildVars>>
    /\ UNCHANGED entryVars

ToEvents ==
    /\ pc = "collect"
    /\ \E sf \in {5, 100}, fs \in {0, 10}, ev \in {1, 7} :
          /\ sfreq_hz' = sf
          /\ first_samp' = fs
          /\ event_id' = ev
          /\ events' = metadata_df_to_mne_events(metadata_df, sf, fs,
                                                 "timestamp", ev)
    /\ pc' = "done"
    /\ UNCHANGED metadata_df
    /\ UNCHANGED <<tierVars, buildVars, metaVars>>
    /\ UNCHANGED <<classifyVars, inferVars, rerenderVars, rebuildVars>>
    /\ UNCHANGED entryVars

NextEvents == AddTimestamp \/ ToEvents

SpecEvents == InitEvents /\ [][NextEvents]_vars

---------------------------------------------------------------------------
(* Claims about the rendered tier (specification SpecTier)                 *)

\* segments ordered by (start, end)
TimeOrdered(segs) ==
    \A i \in 1..(Len(segs) - 1) :
        \/ segs[i][1] < segs[i + 1][1]
        \/ (segs[i][1] = segs[i + 1][1] /\ segs[i][2] <= segs[i + 1][2])

\* the renderer returned for valid bounds and threshold, time-ordered input
RenderedTimeOrdered ==
    /\ pc = "done"
    /\ t_start <= t_end
    /\ min_ipu_s >= 0
    /\ TimeOrdered(ipu_segments)

\* C1 (tier coverage): for t_start <= t_end, min_ipu_s >= 0 and segments
\* that are time-ordered by (start, end), the returned tier is ordered and
\* non-overlapping, each interval ends where the next one starts, and the
\* intervals span exactly [t_start, t_end].
C1_TierCoverage ==
    RenderedTimeOrdered =>
        /\ tier.ok
        /\ \A i \in 1..Len(tier.value) : \A j \in 1..Len(tier.value) :
               i < j => tier.value[i].end <= tier.value[j].start
        /\ \A i \in 1..(Len(tier.value) - 1) :
               tier.value[i].end = tier.value[i + 1].start
        /\ t_start < t_end =>
               /\ tier.value # <<>>
               /\ tier.value[1].start = t_start
               /\ tier.value[Len(tier.value)].end = t_end

\* C9 (alternation): under the same conditions no two adjacent intervals
\* of the returned tier carry the same label.
C9_Alternation ==
    RenderedTimeOrdered =>
        /\ tier.ok
        /\ \A i \in 1..(Len(tier.value) - 1) :
               tier.value[i].text # tier.value[i + 1].text

\* C10 (minimum IPU duration of the output): for t_start <= t_end,
\* min_ipu_s >= 0 and any segment list, no IPU-labelled interval of the
\* returned tier is shorter than min_ipu_s.
C10_MinIpuDuration ==
    (pc = "done" /\ t_start <= t_end /\ min_ipu_s >= 0) =>
        /\ tier.ok
        /\ \A i \in 1..Len(tier.value) :
               tier.value[i].text = IPU_LABEL =>
                   tier.value[i].end - tier.value[i].start >= min_ipu_s

---------------------------------------------------------------------------
(* Claims about make_metadata (specification SpecMeta)                     *)
(*                                                                         *)
(* The claims are stated on the call's arguments and its returned table,   *)
(* with the anchor and partner tables read off the arguments directly.     *)

AnchorTable == IF anchor = "self" THEN self_ipu ELSE other_ipu
PartnerTable == IF anchor = "self" THEN other_ipu ELSE self_ipu
PartnerPrefix == IF anchor = "self" THEN "other" ELSE "self"

\* the rows that are not placeholders, in table order
Retained(tbl) == SelectSeq(tbl.rows, LAMBDA r : r["annotation"] # "#")

Origin(row) == IF time_lock = "onset" THEN row["start"] ELSE row["end"]
Target(row) == IF time_lock = "onset" THEN row["end"] ELSE row["start"]

\* the positions of the rows of P (the retained partner rows) whose target
\* lies in [o - margin_s, o + margin_s)
Candidates(P, o) ==
    {j \in 1..Len(P) :
        o - margin_s <= Target(P[j]) /\ Target(P[j]) < o + margin_s}

Targets(P) == {Target(P[j]) : j \in 1..Len(P)}

MetadataDone == pc = "done" /\ metadata.ok
OutRows == metadata.value.rows

\* C2 (matching window): an output row is matched exactly when some
\* retained partner row has o - margin_s <= target < o + margin_s, and the
\* matched partner's target (o - latency) lies in that window; so a row
\* whose only partner sits at o - margin_s is matched and one whose only
\* partner sits at o + margin_s is not.
C2_MatchingWindow ==
    MetadataDone =>
        LET P == Retained(PartnerTable)
        IN  \A i \in 1..Len(OutRows) :
                LET o == OutRows[i]["timestamp"]
                    lat == OutRows[i]["latency"]
                    cands == Candidates(P, o)
                IN  /\ (lat # NaN) <=> (cands # {})
                    /\ lat # NaN =>
                           \E j \in cands : Target(P[j]) = o - lat[1]
                    /\ Targets(P) = {o - margin_s} => lat = Float(margin_s)
                    /\ Targets(P) = {o + margin_s} => lat = NaN

\* C2 witness: one partner row; it sits at o - margin_s of a matched anchor
\* row and at o + margin_s of an unmatched one.
C2_Witness ==
    /\ MetadataDone
    /\ Len(Retained(PartnerTable)) = 1
    /\ \E i \in 1..Len(OutRows) : \E k \in 1..Len(OutRows) :
          /\ Target(Retained(PartnerTable)[1]) = OutRows[i]["timestamp"] - margin_s
          /\ OutRows[i]["latency"] = Float(margin_s)
          /\ Target(Retained(PartnerTable)[1]) = OutRows[k]["timestamp"] + margin_s
          /\ OutRows[k]["latency"] = NaN

\* C3 as stated (lower bound excluded): a partner row at exactly
\* o - margin_s is never a candidate, so no row has latency = margin_s and a
\* row whose partners all sit at o - margin_s is unmatched; a partner row one
\* tick below o + margin_s is a candidate.
C3_LowerBoundExcluded ==
    MetadataDone =>
        LET targets == Targets(Retained(PartnerTable))
        IN  \A i \in 1..Len(OutRows) :
                LET o == OutRows[i]["timestamp"]
                    lat == OutRows[i]["latency"]
                IN  /\ lat # Float(margin_s)
                    /\ targets = {o - margin_s} => lat = NaN
                    /\ (o + margin_s - 1) \in targets => lat # NaN

\* C3 as amended (lower bound included): a row whose partners all sit at
\* exactly o - margin_s is matched to one of them, with latency = margin_s;
\* a partner row one tick below o + margin_s is a candidate, so a row whose
\* partners all sit there is matched with latency = 1 - margin_s.
C3_LowerBoundIncluded ==
    MetadataDone =>
        LET targets == Targets(Retained(PartnerTable))
        IN  \A i \in 1..Len(OutRows) :
                LET o == OutRows[i]["timestamp"]
                    lat == OutRows[i]["latency"]
                IN  /\ targets = {o - margin_s} => lat = Float(margin_s)
                    /\ (o + margin_s - 1) \in targets => lat # NaN
                    /\ targets = {o + margin_s - 1} => lat = Float(1 - margin_s)

\* C3 witness: one row matched to its only partner at exactly o - margin_s,
\* another matched to a partner one tick below o + margin_s.
C3_Witness ==
    /\ MetadataDone
    /\ Len(Retained(PartnerTable)) = 1
    /\ \E i \in 1..Len(OutRows) : \E k \in 1..Len(OutRows) :
          /\ OutRows[i]["latency"] = Float(margin_s)
          /\ OutRows[k]["latency"] = Float(1 - margin_s)

\* C4 (nearest-partner selection): every output row with a candidate took
\* its partner-prefixed duration/n_syllables/rate from a candidate row that
\* minimises |o - target|, and its latency is o - target of that row.
C4_NearestPartner ==
    MetadataDone =>
        LET P == Retained(PartnerTable)
        IN  \A i \in 1..Len(OutRows) :
                LET o == OutRows[i]["timestamp"]
                    cands == Candidates(P, o)
                IN  cands # {} =>
                        \E j \in cands :
                            /\ \A k \in cands :
                                   Abs(o - Target(P[j])) <= Abs(o - Target(P[k]))
                            /\ \A c \in {"duration", "n_syllables", "rate"} :
                                   OutRows[i][PartnerPrefix \o "_" \o c] = P[j][c]
                            /\ OutRows[i]["latency"] = Float(o - Target(P[j]))

\* C4 witness: two candidates at different distances with different
\* features, the farther one first in the table; the output row carries the
\* nearer one's, with a latency that is not zero.
C4_Witness ==
    /\ MetadataDone
    /\ \E i \in 1..Len(OutRows) :
          LET o == OutRows[i]["timestamp"]
              P == Retained(PartnerTable)
          IN  \E j \in Candidates(P, o) : \E k \in Candidates(P, o) :
                  /\ 0 < Abs(o - Target(P[j]))
                  /\ Abs(o - Target(P[j])) < Abs(o - Target(P[k]))
                  /\ P[j]["rate"] # P[k]["rate"]
                  /\ k < j
                  /\ OutRows[i][PartnerPrefix \o "_rate"] = P[j]["rate"]
                  /\ OutRows[i]["latency"] = Float(o - Target(P[j]))

\* C5 (no-match fallback): the output has one row per retained anchor row,
\* and a row whose anchor has no partner row in its window carries the
\* anchor's origin as timestamp and NaN in every partner-prefixed feature
\* column and in latency.
C5_NoMatchFallback ==
    MetadataDone =>
        LET A == Retained(AnchorTable)
            P == Retained(PartnerTable)
        IN  /\ Len(OutRows) = Len(A)
            /\ \A i \in 1..Len(OutRows) :
                   Candidates(P, Origin(A[i])) = {} =>
                       /\ OutRows[i]["timestamp"] = Origin(A[i])
                       /\ \A c \in {"duration", "n_syllables", "rate"} :
                              OutRows[i][PartnerPrefix \o "_" \o c] = NaN
                       /\ OutRows[i]["latency"] = NaN

\* C5 witness: the partner table has a retained row, yet an anchor row has
\* none within its window and is in the output with a NaN latency.
C5_Witness ==
    /\ MetadataDone
    /\ Retained(PartnerTable) # <<>>
    /\ \E i \in 1..Len(OutRows) :
          /\ Candidates(Retained(PartnerTable),
                        Origin(Retained(AnchorTable)[i])) = {}
          /\ OutRows[i]["latency"] = NaN
          /\ OutRows[i][PartnerPrefix \o "_rate"] = NaN

---------------------------------------------------------------------------
(* Claims about metadata_df_to_mne_events (specification SpecEvents)       *)

\* the rows whose timestamp cell is a finite number or a string that parses
\* as one, in table order
FiniteRows ==
    SelectSeq(metadata_df.rows,
              LAMBDA r : r["timestamp"].kind \in {"float", "numstr"})

EventsDone == pc = "done" /\ events.ok

\* timestamp * sfreq_hz of a finite row is ScaledNum(row) / ScaledDen(row)
ScaledNum(row) == row["timestamp"].num * sfreq_hz
ScaledDen(row) == row["timestamp"].den

\* timestamp * sfreq_hz of the row is exactly halfway between two integers
IsTie(row) == 2 * (ScaledNum(row) % ScaledDen(row)) = ScaledDen(row)

\* the sample index of the k-th event before first_samp is added
Sample(k) == events.value[k][1] - first_samp

\* C6 as stated (ties away from zero): a timestamp * sfreq_hz exactly
\* halfway between two integers gives the neighbour farther from zero
\* (0.5 -> 1, 1.5 -> 2, 2.5 -> 3, -0.5 -> -1).
C6_TiesAwayFromZero ==
    EventsDone =>
        LET finite == FiniteRows
        IN  /\ Len(events.value) = Len(finite)
            /\ \A k \in 1..Len(finite) :
                   IsTie(finite[k]) =>
                       2 * ScaledDen(finite[k]) * Sample(k) =
                           IF ScaledNum(finite[k]) > 0
                           THEN 2 * ScaledNum(finite[k]) + ScaledDen(finite[k])
                           ELSE 2 * ScaledNum(finite[k]) - ScaledDen(finite[k])

\* C6 as amended (ties to the even neighbour): a timestamp * sfreq_hz
\* exactly halfway between two integers gives the even one of the two
\* (0.5 -> 0, 1.5 -> 2, 2.5 -> 2, -0.5 -> 0); first_samp is added after.
C6_TiesToEven ==
    EventsDone =>
        LET finite == FiniteRows
        IN  /\ Len(events.value) = Len(finite)
            /\ \A k \in 1..Len(finite) :
                   IsTie(finite[k]) =>
                       /\ Sample(k) % 2 = 0
                       /\ Abs(2 * (ScaledDen(finite[k]) * Sample(k)
                                     - ScaledNum(finite[k])))
                              = ScaledDen(finite[k])

\* C6 witness: timestamps -0.1, 0.1, 0.3, 0.5 at 5 Hz (-0.5, 0.5, 1.5 and
\* 2.5 samples) give 0, 0, 2, 2 on top of first_samp.
C6_Witness ==
    /\ EventsDone
    /\ sfreq_hz = 5
    /\ first_samp = 10
    /\ metadata_df.rows = <<[timestamp |-> Cell("float", -1, 10)],
                            [timestamp |-> Cell("float", 1, 10)],
                            [timestamp |-> Cell("float", 3, 10)],
                            [timestamp |-> Cell("float", 5, 10)]>>
    /\ Len(events.value) = 4
    /\ \A k \in 1..4 : IsTie(metadata_df.rows[k])
    /\ <<Sample(1), Sample(2), Sample(3), Sample(4)>> = <<0, 0, 2, 2>>

\* C7 (event filtering): the call raises nothing and returns one event per
\* row whose timestamp is a finite number, in row order; the k-th event is
\* (nearest integer to timestamp * sfreq_hz, plus first_samp; 0; event_id);
\* NaN, +/-Inf and non-numeric rows give no event.  Timestamps
\* [0.1, NaN, "bad", 0.5] at 100 Hz, offset 10, code 7 give (20, 0, 7) and
\* (60, 0, 7).
C7_EventFiltering ==
    pc = "done" =>
        LET finite == FiniteRows
        IN  /\ events.ok
            /\ Len(events.value) = Len(finite)
            /\ \A k \in 1..Len(finite) :
                   /\ Len(events.value[k]) = 3
                   /\ Abs(2 * (ScaledDen(finite[k]) * Sample(k)
                                 - ScaledNum(finite[k])))
                          <= ScaledDen(finite[k])
                   /\ events.value[k][2] = 0
                   /\ events.value[k][3] = event_id
            /\ ( /\ metadata_df.rows = <<[timestamp |-> Cell("float", 1, 10)],
                                         [timestamp |-> Cell("nan", 0, 1)],
                                         [timestamp |-> Cell("str", 0, 1)],
                                         [timestamp |-> Cell("float", 5, 10)]>>
                 /\ sfreq_hz = 100
                 /\ first_samp = 10
                 /\ event_id = 7 )
               => events.value = <<<<20, 0, 7>>, <<60, 0, 7>>>>

\* C7 witness: the call on [0.1, NaN, "bad", 0.5] at 100 Hz, offset 10,
\* code 7 has returned two events.
C7_Witness ==
    /\ pc = "done"
    /\ metadata_df.rows = <<[timestamp |-> Cell("float", 1, 10)],
                            [timestamp |-> Cell("nan", 0, 1)],
                            [timestamp |-> Cell("str", 0, 1)],
                            [timestamp |-> Cell("float", 5, 10)]>>
    /\ sfreq_hz = 100
    /\ first_samp = 10
    /\ event_id = 7
    /\ events.ok
    /\ Len(events.value) = 2

---------------------------------------------------------------------------
(* Claims about the second pass of build_ipu_segments_from_tokens          *)
(* (specification SpecBuild)                                               *)

\* the raw runs the first pass hands to the second pass
RawRuns ==
    raw_segments(tokens, include_laughter, include_noise, include_filled_pause)

SetMax(S) == CHOOSE x \in S : \A y \in S : y <= x

\* B is the set of positions of raw runs that open a kept run.
\* GroupOpen(B, j): the raw run that opened the kept run holding raw run j.
GroupOpen(B, j) == SetMax({b \in B : b <= j})

\* the end of that kept run once raw runs up to j have been processed
CurrentEnd(raw, B, j) == SetMax({raw[k][2] : k \in GroupOpen(B, j)..j})

\* the last raw run of the kept run opened by b
GroupLast(n, B, b) == SetMax({j \in b..n : \A c \in B : ~(b < c /\ c <= j)})

BuildDone == pc = "built" /\ segments.ok

\* C8 (silence merging): raw run j > 1 is merged into the kept run before
\* it iff its start minus that run's current end is strictly less than
\* min_silence_s, and each kept run is (start of its first raw run, max end
\* of its raw runs); a gap equal to min_silence_s opens a new kept run.
C8_SilenceMerging ==
    BuildDone =>
        LET raw == RawRuns
            n == Len(raw)
        IN  n > 0 =>
                \E B \in SUBSET (1..n) :
                    /\ 1 \in B
                    /\ \A j \in 2..n :
                           (j \notin B) <=>
                               (raw[j][1] - CurrentEnd(raw, B, j - 1)
                                    < min_silence_s)
                    /\ Len(segments.value) = Cardinality(B)
                    /\ \A b \in B :
                           segments.value[Cardinality({c \in B : c <= b})] =
                               <<raw[b][1],
                                 CurrentEnd(raw, B, GroupLast(n, B, b))>>

\* C8 witness: three raw runs; one is merged over a gap shorter than
\* min_silence_s, and a gap exactly equal to min_silence_s separates the
\* two kept runs.
C8_Witness ==
    /\ BuildDone
    /\ min_silence_s > 0
    /\ Len(RawRuns) = 3
    /\ Len(segments.value) = 2
    /\ segments.value[2][1] - segments.value[1][2] = min_silence_s

---------------------------------------------------------------------------
(* More claims about the rendered tier (specification SpecTier)            *)

TierDone == pc = "done" /\ tier.ok

\* the activity intervals of the returned tier, in tier order
ActivityIntervals == SelectSeq(tier.value, LAMBDA itv : itv.text = IPU_LABEL)

\* segment seg is well-formed, long enough, and not empty once clamped
Emitted(seg) ==
    /\ seg[2] > seg[1]
    /\ seg[2] - seg[1] >= min_ipu_s
    /\ (IF seg[2] <= t_end THEN seg[2] ELSE t_end)
           > (IF seg[1] >= t_start THEN seg[1] ELSE t_start)

Clamped(seg) ==
    [start |-> IF seg[1] >= t_start THEN seg[1] ELSE t_start,
     end |-> IF seg[2] <= t_end THEN seg[2] ELSE t_end,
     text |-> IPU_LABEL]

\* C11 (segment filtering): the activity intervals of the tier are, in
\* order, the clamped images of exactly the input segments with end > start,
\* duration >= min_ipu_s and positive length after clamping; and segments
\* [(0.0,1.0),(1.5,1.52)] over [0.0,2.0] with min_ipu_s=0.05 (in hundredths:
\* [(0,100),(150,152)] over [0,200] with 5) give [(0,100,IPU),(100,200,#)].
C11_SegmentFiltering ==
    /\ TierDone =>
           LET emitted == SelectSeq(ipu_segments, Emitted)
           IN  ActivityIntervals =
                   [i \in 1..Len(emitted) |-> Clamped(emitted[i])]
    /\ apply_min_ipu_and_render_full_tier(
           0, 200, <<<<0, 100>>, <<150, 152>>>>, 5, IPU_LABEL, SILENCE_LABEL)
         = Ok(<<[start |-> 0, end |-> 100, text |-> IPU_LABEL],
                [start |-> 100, end |-> 200, text |-> SILENCE_LABEL]>>)

\* C11 witness: of two well-formed segments, one lasts exactly min_ipu_s and
\* is emitted shortened by the clamp, the other is too short and is omitted.
C11_Witness ==
    /\ TierDone
    /\ Len(ipu_segments) = 2
    /\ Len(ActivityIntervals) = 1
    /\ \E i, j \in 1..2 :
          /\ ipu_segments[i][2] - ipu_segments[i][1] = min_ipu_s
          /\ Emitted(ipu_segments[i])
          /\ ActivityIntervals[1] = Clamped(ipu_segments[i])
          /\ ActivityIntervals[1].end - ActivityIntervals[1].start < min_ipu_s
          /\ ipu_segments[j][2] > ipu_segments[j][1]
          /\ ipu_segments[j][2] - ipu_segments[j][1] < min_ipu_s

---------------------------------------------------------------------------
(* Specification SpecClassify: a token label is typed character by         *)
(* character, then _is_token_in_ipu is called on it with drawn flags.      *)

LabelChars == {" ", "\t", "#", "@", "*", "f", "F", "p", "P", "a"}

InitClassify ==
    /\ pc = "type"
    /\ ClassifyIdle
    /\ TierIdle
    /\ BuildIdle
    /\ MetaIdle
    /\ EventIdle
    /\ InferIdle
    /\ RerenderIdle
    /\ RebuildIdle
    /\ EntryIdle

TypeChar ==
    /\ pc = "type"
    /\ Len(token_label) < MaxLabelLen
    /\ \E c \in LabelChars : token_label' = Append(token_label, c)
    /\ UNCHANGED <<pc, token_in_ipu>>
    /\ UNCHANGED <<tierVars, buildVars, metaVars, eventVars>>
    /\ UNCHANGED <<inferVars, rerenderVars, rebuildVars>>
    /\ UNCHANGED entryVars

Classify ==
    /\ pc = "type"
    /\ \E il \in BOOLEAN, inz \in BOOLEAN, ifp \in BOOLEAN :
          /\ include_laughter' = il
          /\ include_noise' = inz
          /\ include_filled_pause' = ifp
          /\ token_in_ipu' = Ok(is_token_in_ipu(token_label, il, inz, ifp))
    /\ pc' = "classified"
    /\ UNCHANGED <<token_label, tokens, min_silence_s, segments>>
    /\ UNCHANGED <<tierVars, metaVars, eventVars>>
    /\ UNCHANGED <<inferVars, rerenderVars, rebuildVars>>
    /\ UNCHANGED entryVars

NextClassify == TypeChar \/ Classify

SpecClassify == InitClassify /\ [][NextClassify]_vars

---------------------------------------------------------------------------
(* Claims about _is_token_in_ipu (specification SpecClassify)              *)

\* the positions of the label's characters that are not whitespace
NonBlank(t) == {i \in 1..Len(t) : t[i] \notin {" ", "\t", "\n"}}

\* the label without its leading and trailing whitespace
Core(t) ==
    IF NonBlank(t) = {} THEN <<>>
    ELSE SubSeq(t, CHOOSE i \in NonBlank(t) : \A j \in NonBlank(t) : i <= j,
                   CHOOSE i \in NonBlank(t) : \A j \in NonBlank(t) : j <= i)

\* C12 (classification policy): on the whitespace-stripped label, in this
\* order: empty -> background; "#" -> background whatever the flags;
\* "@" -> include_laughter; "*" -> include_noise; "fp" in any case ->
\* include_filled_pause; anything else -> activity.
C12_ClassificationPolicy ==
    pc = "classified" =>
        LET core == Core(token_label)
        IN  /\ token_in_ipu.ok
            /\ token_in_ipu.value =
                   IF core = <<>> THEN FALSE
                   ELSE IF core = <<"#">> THEN FALSE
                   ELSE IF core = <<"@">> THEN include_laughter
                   ELSE IF core = <<"*">> THEN include_noise
                   ELSE IF /\ Len(core) = 2
                           /\ core[1] \in {"f", "F"}
                           /\ core[2] \in {"p", "P"}
                   THEN include_filled_pause
                   ELSE TRUE

\* C12 witness: the label "Fp" followed by a blank, classified as background
\* because include_filled_pause is off while the other two flags are on.
C12_Witness ==
    /\ pc = "classified"
    /\ token_label = <<"F", "p", " ">>
    /\ include_laughter
    /\ include_noise
    /\ ~include_filled_pause
    /\ token_in_ipu = Ok(FALSE)

---------------------------------------------------------------------------
(* Specification SpecInfer: the subject id and the run number of a file    *)
(* name are typed digit by digit, then                                     *)
(* infer_partner_id_and_run_from_ipu_path is called on the path.           *)

IdDigits == {"0", "1", "2", "8", "9"}
RunDigits == {"0", "3"}
TaskParts == {<<>>, <<"t", "a", "s", "k", "-", "c", "_">>}

InitInfer ==
    /\ pc = "name"
    /\ \E task \in TaskParts : ipu_path = Stem(<<>>, task, <<>>)
    /\ partner = NotCalled
    /\ TierIdle
    /\ BuildIdle
    /\ MetaIdle
    /\ EventIdle
    /\ ClassifyIdle
    /\ RerenderIdle
    /\ RebuildIdle
    /\ EntryIdle

TypeSubDigit ==
    /\ pc = "name"
    /\ Len(ipu_path.sub) < MaxIdLen
    /\ \E c \in IdDigits : ipu_path' = [ipu_path EXCEPT !.sub = Append(@, c)]
    /\ UNCHANGED <<pc, partner>>
    /\ UNCHANGED <<tierVars, buildVars, metaVars, eventVars>>
    /\ UNCHANGED <<classifyVars, rerenderVars, rebuildVars>>
    /\ UNCHANGED entryVars

TypeRunDigit ==
    /\ pc = "name"
    /\ Len(ipu_path.run) < MaxRunLen
    /\ \E c \in RunDigits : ipu_path' = [ipu_path EXCEPT !.run = Append(@, c)]
    /\ UNCHANGED <<pc, partner>>
    /\ UNCHANGED <<tierVars, buildVars, metaVars, eventVars>>
    /\ UNCHANGED <<classifyVars, rerenderVars, rebuildVars>>
    /\ UNCHANGED entryVars

InferPartner ==
    /\ pc = "name"
    /\ partner' = infer_partner_id_and_run_from_ipu_path(ipu_path)
    /\ pc' = "inferred"
    /\ UNCHANGED ipu_path
    /\ UNCHANGED <<tierVars, buildVars, metaVars, eventVars>>
    /\ UNCHANGED <<classifyVars, rerenderVars, rebuildVars>>
    /\ UNCHANGED entryVars

NextInfer == TypeSubDigit \/ TypeRunDigit \/ InferPartner

SpecInfer == InitInfer /\ [][NextInfer]_vars

---------------------------------------------------------------------------
(* Claims about infer_partner_id_and_run_from_ipu_path (SpecInfer)         *)

\* the value of a three-digit id
IdValue(d) ==
    100 * ((CHOOSE i \in 1..10 : DigitChars[i] = d[1]) - 1)
        + 10 * ((CHOOSE i \in 1..10 : DigitChars[i] = d[2]) - 1)
        + ((CHOOSE i \in 1..10 : DigitChars[i] = d[3]) - 1)

\* C13 (partner-id inference): for a stem with a three-digit subject id
\* (000 to 999) and a run number, the call returns three digits spelling
\* id - 1 when id is even and id + 1 when id is odd, and the run number
\* unchanged.
C13_PartnerIdInference ==
    (pc = "inferred" /\ Len(ipu_path.sub) = 3 /\ Len(ipu_path.run) >= 1) =>
        /\ partner.ok
        /\ Len(partner.value[1]) = 3
        /\ \A i \in 1..3 : partner.value[1][i] \in Range(DigitChars)
        /\ IdValue(partner.value[1]) =
               IF IdValue(ipu_path.sub) % 2 = 0
               THEN IdValue(ipu_path.sub) - 1
               ELSE IdValue(ipu_path.sub) + 1
        /\ partner.value[2] = ipu_path.run

---------------------------------------------------------------------------
(* More claims about make_metadata (specification SpecMeta)                *)

\* the partner rows, placeholders included, whose target lies in the window
\* of origin o
InWindowRows(o) ==
    SelectSeq(PartnerTable.rows,
              LAMBDA r : o - margin_s <= Target(r) /\ Target(r) < o + margin_s)

\* C14 (retained rows): the output has exactly one row per anchor row whose
\* annotation is not "#", in the anchor table's order, with timestamp = that
\* row's start (onset lock) or end (offset lock); a partner row with
\* annotation "#" is never the match: a matched row's partner is a
\* non-placeholder row of its window, and a row whose window holds only
\* placeholder rows is unmatched.
C14_RetainedRows ==
    MetadataDone =>
        LET A == SelectSeq(AnchorTable.rows,
                           LAMBDA r : r["annotation"] # PLACEHOLDER_ANNOTATION)
        IN  /\ Len(OutRows) = Len(A)
            /\ \A i \in 1..Len(A) :
                   LET o == Origin(A[i])
                       lat == OutRows[i]["latency"]
                       window == InWindowRows(o)
                   IN  /\ OutRows[i]["timestamp"] = o
                       /\ (\A k \in 1..Len(window) :
                               window[k]["annotation"] = PLACEHOLDER_ANNOTATION)
                              => lat = NaN
                       /\ lat # NaN =>
                              \E k \in 1..Len(window) :
                                  /\ window[k]["annotation"]
                                         # PLACEHOLDER_ANNOTATION
                                  /\ Target(window[k]) = o - lat[1]
                                  /\ OutRows[i][PartnerPrefix \o "_rate"]
                                         = window[k]["rate"]

\* C14 witness: the anchor table has a placeholder row before a retained
\* one, so the output is shorter than the table; the only partner row in the
\* retained row's window is a placeholder, and the row is unmatched.
C14_Witness ==
    /\ MetadataDone
    /\ Len(AnchorTable.rows) = 2
    /\ AnchorTable.rows[1]["annotation"] = PLACEHOLDER_ANNOTATION
    /\ AnchorTable.rows[2]["annotation"] # PLACEHOLDER_ANNOTATION
    /\ Len(OutRows) = 1
    /\ OutRows[1]["timestamp"] = Origin(AnchorTable.rows[2])
    /\ Len(InWindowRows(OutRows[1]["timestamp"])) = 1
    /\ InWindowRows(OutRows[1]["timestamp"])[1]["annotation"]
           = PLACEHOLDER_ANNOTATION
    /\ OutRows[1]["latency"] = NaN

---------------------------------------------------------------------------
(* Specification SpecRemerge: as SpecBuild, and then the second pass of    *)
(* build_ipu_segments_from_tokens is run again, with the same              *)
(* min_silence_s, on the segments the call returned.                       *)

\* lines 171-186 applied to a run list
merge_pass(runs, ms) ==
    IF runs = <<>> THEN <<>>
    ELSE MergePass(Tail(runs), <<Head(runs)>>, ms)

Remerge ==
    /\ pc = "built"
    /\ segments.ok
    /\ remerged' = Ok(merge_pass(segments.value, min_silence_s))
    /\ pc' = "remerged"
    /\ UNCHANGED <<min_silence_s_2, segments_2>>
    /\ UNCHANGED <<tierVars, buildVars, metaVars, eventVars>>
    /\ UNCHANGED <<classifyVars, inferVars, rerenderVars>>
    /\ UNCHANGED entryVars

NextRemerge == ReadToken \/ BuildSegments \/ Remerge

SpecRemerge == InitBuild /\ [][NextRemerge]_vars

\* C15 (idempotent merge): for min_silence_s >= 0, running the merge pass
\* again on the returned run list returns it unchanged, and every pair of
\* consecutive returned runs is separated by a gap >= min_silence_s.
C15_IdempotentMerge ==
    pc = "remerged" =>
        /\ min_silence_s >= 0
        /\ remerged.ok
        /\ remerged.value = segments.value
        /\ \A i \in 1..(Len(segments.value) - 1) :
               segments.value[i + 1][1] - segments.value[i][2] >= min_silence_s

\* C15 witness: three raw runs were merged into two by the call, and the
\* merge pass run again has left the two as they are.
C15_Witness ==
    /\ pc = "remerged"
    /\ min_silence_s > 0
    /\ Len(RawRuns) = 3
    /\ Len(segments.value) = 2
    /\ remerged = Ok(segments.value)

---------------------------------------------------------------------------
(* Specification SpecThresholds: a time-ordered list of silence, laughter, *)
(* noise and filled-pause tokens is read; build_ipu_segments_from_tokens   *)
(* is called on it with drawn flags and a threshold >= 0, then again with  *)
(* the same flags and a threshold at least as large.                       *)

FlagTexts == {<<"#">>, <<"@">>, <<"*">>, <<"f", "p">>}

\* the token times and the thresholds of this specification
FlagTimes == 0..(MaxTokTime - 1)

ReadFlagToken ==
    /\ pc = "read"
    /\ Len(tokens) < MaxFlagTokens
    /\ \E s \in FlagTimes, e \in FlagTimes, txt \in FlagTexts :
          /\ s <= e
          /\ tokens # <<>> => KeyLeq(tokens[Len(tokens)], Interval(s, e, txt))
          /\ tokens' = Append(tokens, Interval(s, e, txt))
    /\ UNCHANGED <<pc, include_laughter, include_noise, include_filled_pause,
                   min_silence_s, segments>>
    /\ UNCHANGED <<tierVars, metaVars, eventVars>>
    /\ UNCHANGED <<classifyVars, inferVars, rerenderVars, rebuildVars>>
    /\ UNCHANGED entryVars

BuildWithFlags ==
    /\ pc = "read"
    /\ \E il \in BOOLEAN, inz \in BOOLEAN, ifp \in BOOLEAN, ms \in FlagTimes :
          /\ include_laughter' = il
          /\ include_noise' = inz
          /\ include_filled_pause' = ifp
          /\ min_silence_s' = ms
          /\ segments' = build_ipu_segments_from_tokens(tokens, il, inz, ifp, ms)
    /\ pc' = "built"
    /\ UNCHANGED tokens
    /\ UNCHANGED <<tierVars, metaVars, eventVars>>
    /\ UNCHANGED <<classifyVars, inferVars, rerenderVars, rebuildVars>>
    /\ UNCHANGED entryVars

BuildAgain ==
    /\ pc = "built"
    /\ \E ms \in {m \in FlagTimes : min_silence_s <= m} :
          /\ min_silence_s_2' = ms
          /\ segments_2' = build_ipu_segments_from_tokens(
                               tokens, include_laughter, include_noise,
                               include_filled_pause, ms)
    /\ pc' = "rebuilt"
    /\ UNCHANGED remerged
    /\ UNCHANGED <<tierVars, buildVars, metaVars, eventVars>>
    /\ UNCHANGED <<classifyVars, inferVars, rerenderVars>>
    /\ UNCHANGED entryVars

NextThresholds == ReadFlagToken \/ BuildWithFlags \/ BuildAgain

SpecThresholds == InitBuild /\ [][NextThresholds]_vars

\* C16 (silence monotonicity): with the same tokens and flags and
\* thresholds 0 <= min_silence_s <= min_silence_s_2, the second call returns
\* no more runs than the first.
C16_SilenceMonotonicity ==
    pc = "rebuilt" =>
        /\ 0 <= min_silence_s
        /\ min_silence_s <= min_silence_s_2
        /\ segments.ok
        /\ segments_2.ok
        /\ Len(segments_2.value) <= Len(segments.value)

\* C16 witness: laughter counts as speech and opens a run; with a larger
\* threshold the second call has returned fewer runs than the first.
C16_Witness ==
    /\ pc = "rebuilt"
    /\ include_laughter
    /\ ~include_filled_pause
    /\ \E i \in 1..Len(tokens) : tokens[i].text = <<"@">>
    /\ \E i \in 1..Len(tokens) : tokens[i].text = <<"f", "p">>
    /\ min_silence_s < min_silence_s_2
    /\ segments.ok
    /\ segments_2.ok
    /\ Len(segments_2.value) < Len(segments.value)

---------------------------------------------------------------------------
(* Specification SpecRerender: the renderer is called on valid arguments,  *)
(* then again on the same timeline and segments with a min_ipu_s at least  *)
(* as large.                                                               *)

InitRerender ==
    /\ pc = "render"
    /\ t_start \in Times
    /\ t_end \in {t \in Times : t_start <= t}
    /\ ipu_segments \in SeqsUpTo({seg \in Segments : seg[1] <= seg[2]}, MaxSegs)
    /\ min_ipu_s \in Times
    /\ tier = NotCalled
    /\ RerenderIdle
    /\ BuildIdle
    /\ MetaIdle
    /\ EventIdle
    /\ ClassifyIdle
    /\ InferIdle
    /\ RebuildIdle
    /\ EntryIdle

RenderAgain ==
    /\ pc = "done"
    /\ \E mi \in {p \in Times : min_ipu_s <= p} :
          /\ min_ipu_s_2' = mi
          /\ tier_2' = apply_min_ipu_and_render_full_tier(
                           t_start, t_end, ipu_segments, mi,
                           IPU_LABEL, SILENCE_LABEL)
    /\ pc' = "rerendered"
    /\ UNCHANGED <<tierVars, buildVars, metaVars, eventVars>>
    /\ UNCHANGED <<classifyVars, inferVars, rebuildVars>>
    /\ UNCHANGED entryVars

NextRerender == RenderTier \/ RenderAgain

SpecRerender == InitRerender /\ [][NextRerender]_vars

\* the number of activity intervals of a tier
ActivityCount(tr) == Len(SelectSeq(tr, LAMBDA itv : itv.text = IPU_LABEL))

\* C17 (minimum-IPU monotonicity): for the same t_start <= t_end and
\* segments and 0 <= min_ipu_s <= min_ipu_s_2, the second tier has no more
\* activity intervals than the first.
C17_MinIpuMonotonicity ==
    pc = "rerendered" =>
        /\ 0 <= min_ipu_s
        /\ min_ipu_s <= min_ipu_s_2
        /\ tier.ok
        /\ tier_2.ok
        /\ ActivityCount(tier_2.value) <= ActivityCount(tier.value)

\* C17 witness: the larger threshold has removed one of two activity
\* intervals.
C17_Witness ==
    /\ pc = "rerendered"
    /\ min_ipu_s < min_ipu_s_2
    /\ tier.ok
    /\ tier_2.ok
    /\ ActivityCount(tier.value) = 2
    /\ ActivityCount(tier_2.value) = 1

---------------------------------------------------------------------------
(* Specification SpecUnsorted: build_ipu_segments_from_tokens is called    *)
(* directly on a token list in any order, without the sort of              *)
(* _read_tokensalign_intervals.                                            *)

AppendToken ==
    /\ pc = "read"
    /\ Len(tokens) < MaxFlagTokens
    /\ \E itv \in TokenIntervals :
          /\ itv.start <= itv.end
          /\ tokens' = Append(tokens, itv)
    /\ UNCHANGED <<pc, include_laughter, include_noise, include_filled_pause,
                   min_silence_s, segments>>
    /\ UNCHANGED <<tierVars, metaVars, eventVars>>
    /\ UNCHANGED <<classifyVars, inferVars, rerenderVars, rebuildVars>>
    /\ UNCHANGED entryVars

NextUnsorted == AppendToken \/ BuildSegments

SpecUnsorted == InitBuild /\ [][NextUnsorted]_vars

\* list.sort(key=lambda x: (x.start, x.end)): a stable insertion of itv
RECURSIVE InsertByKey(_, _)
InsertByKey(sorted, itv) ==
    IF sorted = <<>> THEN <<itv>>
    ELSE IF KeyLeq(sorted[Len(sorted)], itv) THEN Append(sorted, itv)
    ELSE Append(InsertByKey(SubSeq(sorted, 1, Len(sorted) - 1), itv),
                sorted[Len(sorted)])

RECURSIVE SortByKey(_)
SortByKey(toks) ==
    IF toks = <<>> THEN <<>>
    ELSE InsertByKey(SortByKey(SubSeq(toks, 1, Len(toks) - 1)), toks[Len(toks)])

IsSortedByKey(toks) ==
    \A i \in 1..(Len(toks) - 1) : KeyLeq(toks[i], toks[i + 1])

\* C18 (ordering precondition): called with min_silence_s >= 0 on tokens
\* that are not sorted by (start, end), build_ipu_segments_from_tokens
\* either raises or returns the runs it returns for the sorted list.
C18_OrderingPrecondition ==
    (pc = "built" /\ min_silence_s >= 0 /\ ~IsSortedByKey(tokens)) =>
        \/ ~segments.ok
        \/ segments = build_ipu_segments_from_tokens(
                          SortByKey(tokens), include_laughter, include_noise,
                          include_filled_pause, min_silence_s)

---------------------------------------------------------------------------
(* Specification SpecMetaArgs: make_metadata is called with any           *)
(* arguments, valid or not, on tables that may lack required columns.      *)

TimeLockArgs == {"onset", "offset", "ONSET"}
AnchorArgs == {"self", "other", "both"}
MarginKinds == {"float", "nan", "+inf", "-inf"}
MarginArgs == (0 - 1)..MaxMargin

InitMetaArgs ==
    /\ pc = "args"
    /\ MetaIdle
    /\ TierIdle
    /\ BuildIdle
    /\ EventIdle
    /\ ClassifyIdle
    /\ InferIdle
    /\ RerenderIdle
    /\ RebuildIdle
    /\ EntryIdle

DropSelfColumn ==
    /\ pc = "args"
    /\ \E col \in self_ipu.columns :
          self_ipu' = [self_ipu EXCEPT !.columns = @ \ {col}]
    /\ UNCHANGED <<pc, other_ipu, time_lock, anchor, margin_s, margin_kind,
                   metadata>>
    /\ UNCHANGED <<tierVars, buildVars, eventVars>>
    /\ UNCHANGED <<classifyVars, inferVars, rerenderVars, rebuildVars>>
    /\ UNCHANGED entryVars

DropOtherColumn ==
    /\ pc = "args"
    /\ \E col \in other_ipu.columns :
          other_ipu' = [other_ipu EXCEPT !.columns = @ \ {col}]
    /\ UNCHANGED <<pc, self_ipu, time_lock, anchor, margin_s, margin_kind,
                   metadata>>
    /\ UNCHANGED <<tierVars, buildVars, eventVars>>
    /\ UNCHANGED <<classifyVars, inferVars, rerenderVars, rebuildVars>>
    /\ UNCHANGED entryVars

CallMakeMetadata ==
    /\ pc = "args"
    /\ \E tl \in TimeLockArgs, an \in AnchorArgs, kind \in MarginKinds,
          m \in MarginArgs :
          /\ kind # "float" => m = 0
          /\ time_lock' = tl
          /\ anchor' = an
          /\ margin_s' = m
          /\ margin_kind' = kind
          /\ metadata' = make_metadata(self_ipu, other_ipu, tl, an, kind, m)
    /\ pc' = "called"
    /\ UNCHANGED <<self_ipu, other_ipu>>
    /\ UNCHANGED <<tierVars, buildVars, eventVars>>
    /\ UNCHANGED <<classifyVars, inferVars, rerenderVars, rebuildVars>>
    /\ UNCHANGED entryVars

NextMetaArgs == DropSelfColumn \/ DropOtherColumn \/ CallMakeMetadata

SpecMetaArgs == InitMetaArgs /\ [][NextMetaArgs]_vars

InvalidArgs ==
    \/ time_lock \notin {"onset", "offset"}
    \/ anchor \notin {"self", "other"}
    \/ margin_kind # "float"
    \/ margin_s <= 0

ArgumentMessages ==
    {"time_lock must be 'onset' or 'offset'",
     "anchor must be 'self' or 'other'",
     "margin_s must be a finite positive number"}

\* C19 (alignment argument validation): make_metadata called with a
\* time_lock other than onset/offset, an anchor other than self/other, or a
\* margin_s that is non-finite or <= 0 raises ValueError with the message of
\* an argument check and returns no table, and it is the argument check that
\* fails even when a table lacks required columns.
C19_ArgumentValidation ==
    (pc = "called" /\ InvalidArgs) =>
        /\ ~metadata.ok
        /\ metadata.error = "ValueError"
        /\ metadata.message \in ArgumentMessages
        /\ metadata.value = <<>>

C19_Witness ==
    /\ pc = "called"
    /\ margin_kind = "nan"
    /\ time_lock = "onset"
    /\ anchor = "self"
    /\ "start" \notin self_ipu.columns
    /\ "annotation" \notin other_ipu.columns
    /\ metadata = RaiseMsg("ValueError",
                           "margin_s must be a finite positive number")

---------------------------------------------------------------------------
(* Specification SpecPreconditions: a caller passes any token list and any *)
(* min_silence_s to build_ipu_segments_from_tokens, then passes what it    *)
(* got, with any bounds and any min_ipu_s, to                              *)
(* apply_min_ipu_and_render_full_tier.                                     *)

PassToken ==
    /\ pc = "read"
    /\ Len(tokens) < MaxCallTokens
    /\ \E itv \in TokenIntervals :
          /\ itv.start <= itv.end
          /\ tokens' = Append(tokens, itv)
    /\ UNCHANGED <<pc, include_laughter, include_noise, include_filled_pause,
                   min_silence_s, segments>>
    /\ UNCHANGED <<tierVars, metaVars, eventVars>>
    /\ UNCHANGED <<classifyVars, inferVars, rerenderVars, rebuildVars>>
    /\ UNCHANGED entryVars

RenderSegments ==
    /\ pc = "built"
    /\ \E ts \in TokenTimes, te \in TokenTimes, mi \in (0 - 1)..1 :
          /\ t_start' = ts
          /\ t_end' = te
          /\ min_ipu_s' = mi
          /\ ipu_segments' = segments.value
          /\ tier' = apply_min_ipu_and_render_full_tier(
                         ts, te, segments.value, mi, IPU_LABEL, SILENCE_LABEL)
    /\ pc' = "tiered"
    /\ UNCHANGED <<buildVars, metaVars, eventVars>>
    /\ UNCHANGED <<classifyVars, inferVars, rerenderVars, rebuildVars>>
    /\ UNCHANGED entryVars

NextPreconditions == PassToken \/ BuildSegments \/ RenderSegments

SpecPreconditions == InitBuild /\ [][NextPreconditions]_vars

BuildCalled == pc \in {"built", "tiered"}

\* C20 (precondition failures): build_ipu_segments_from_tokens called with
\* min_silence_s < 0 raises ValueError for every token list, the empty one
\* included, and apply_min_ipu_and_render_full_tier called with
\* t_end < t_start or with min_ipu_s < 0 raises ValueError; a call that
\* raises returns no run and no interval.
C20_PreconditionFailures ==
    /\ (BuildCalled /\ min_silence_s < 0) =>
           segments = RaiseMsg("ValueError", "min_silence_s must be >= 0")
    /\ (pc = "tiered" /\ t_end < t_start) =>
           tier = RaiseMsg("ValueError", "t_end must be >= t_start")
    /\ (pc = "tiered" /\ t_end >= t_start /\ min_ipu_s < 0) =>
           tier = RaiseMsg("ValueError", "min_ipu_s must be >= 0")

C20_Witness ==
    /\ pc = "tiered"
    /\ tokens = <<>>
    /\ min_silence_s < 0
    /\ ~segments.ok
    /\ segments.value = <<>>
    /\ t_end < t_start
    /\ min_ipu_s < 0
    /\ ~tier.ok
    /\ tier.value = <<>>

---------------------------------------------------------------------------
(* Specification SpecDiagnostics: IPU tables and a metadata table lose     *)
(* columns, then make_metadata or metadata_df_to_mne_events is called with *)
(* valid arguments.                                                        *)

MetadataColumns == {"timestamp", "latency", "abs_diff"}

InitDiagnostics ==
    /\ pc = "args"
    /\ MetaIdle
    /\ metadata_df = DataFrame(MetadataColumns, <<>>)
    /\ sfreq_hz = 0
    /\ first_samp = 0
    /\ event_id = 1
    /\ events = NotCalled
    /\ TierIdle
    /\ BuildIdle
    /\ ClassifyIdle
    /\ InferIdle
    /\ RerenderIdle
    /\ RebuildIdle
    /\ EntryIdle

DropMetadataColumn ==
    /\ pc = "args"
    /\ \E col \in metadata_df.columns :
          metadata_df' = [metadata_df EXCEPT !.columns = @ \ {col}]
    /\ UNCHANGED <<pc, sfreq_hz, first_samp, event_id, events>>
    /\ UNCHANGED <<tierVars, buildVars, metaVars>>
    /\ UNCHANGED <<classifyVars, inferVars, rerenderVars, rebuildVars>>
    /\ UNCHANGED entryVars

CallWithDefaults ==
    /\ pc = "args"
    /\ metadata' = make_metadata(self_ipu, other_ipu, time_lock, anchor,
                                 margin_kind, margin_s)
    /\ pc' = "called"
    /\ UNCHANGED <<self_ipu, other_ipu, time_lock, anchor, margin_s, margin_kind>>
    /\ UNCHANGED <<tierVars, buildVars, eventVars>>
    /\ UNCHANGED <<classifyVars, inferVars, rerenderVars, rebuildVars>>
    /\ UNCHANGED entryVars

ConvertEvents ==
    /\ pc = "args"
    /\ \E fs \in {0, 10} :
          /\ sfreq_hz' = 100
          /\ first_samp' = fs
          /\ events' = metadata_df_to_mne_events(metadata_df, 100, fs,
                                                 "timestamp", event_id)
    /\ pc' = "converted"
    /\ UNCHANGED <<metadata_df, event_id>>
    /\ UNCHANGED <<tierVars, buildVars, metaVars>>
    /\ UNCHANGED <<classifyVars, inferVars, rerenderVars, rebuildVars>>
    /\ UNCHANGED entryVars

NextDiagnostics ==
    \/ DropSelfColumn
    \/ DropOtherColumn
    \/ DropMetadataColumn
    \/ CallWithDefaults
    \/ ConvertEvents

SpecDiagnostics == InitDiagnostics /\ [][NextDiagnostics]_vars

\* the table whose missing columns make_metadata reports: self is cleaned
\* first
OffendingTable ==
    IF IpuColumns \ self_ipu.columns # {} THEN self_ipu ELSE other_ipu

\* C21 (missing-column diagnostics): a missing-column error of the cleaning
\* step of make_metadata or of metadata_df_to_mne_events names the missing
\* columns and reports the full set of columns present in the offending
\* table.
C21_MissingColumnDiagnostics ==
    /\ (pc = "called" /\ ~metadata.ok) =>
           /\ metadata.named = IpuColumns \ OffendingTable.columns
           /\ metadata.found = <<OffendingTable.columns>>
    /\ (pc = "converted" /\ ~events.ok) =>
           /\ events.named = {"timestamp"}
           /\ events.found = <<metadata_df.columns>>

---------------------------------------------------------------------------
(* Claims on make_metadata: independence of the per-row matches (checked   *)
(* on SpecEntry), rate difference (checked on SpecMeta)                    *)

\* make_metadata called with the arguments of the state, the anchor table
\* cut down to the single row r
AloneResult(r) ==
    IF anchor = "self"
    THEN make_metadata(DataFrame(self_ipu.columns, <<r>>), other_ipu,
                       time_lock, anchor, margin_kind, margin_s)
    ELSE make_metadata(self_ipu, DataFrame(other_ipu.columns, <<r>>),
                       time_lock, anchor, margin_kind, margin_s)

\* C22 (partner rows are never consumed): every row of a table returned by
\* make_metadata equals the row make_metadata returns for that anchor row
\* alone against the whole partner table, whatever the rows before it
\* matched; so one partner row can be the match of several anchor rows.
C22_PartnerNeverConsumed ==
    metadata.ok =>
        LET A == Retained(AnchorTable)
        IN  \A i \in 1..Len(A) :
                /\ i <= Len(OutRows)
                /\ <<OutRows[i]>> = AloneResult(A[i]).value.rows

\* C22 witness: the only retained partner row is the match of two anchor
\* rows.
C22_Witness ==
    /\ metadata.ok
    /\ Len(Retained(PartnerTable)) = 1
    /\ \E i \in 1..Len(OutRows) : \E k \in 1..Len(OutRows) :
          /\ i < k
          /\ OutRows[i]["latency"] # NaN
          /\ OutRows[k]["latency"] # NaN

\* C23 (absolute rate difference): in every output row, abs_diff is
\* |self_rate - other_rate| of that row's own self_rate and other_rate, for
\* both anchor roles and both lock modes; it is never negative, and it is
\* NaN exactly when one of the two rates is NaN.
C23_AbsoluteRateDifference ==
    MetadataDone =>
        \A i \in 1..Len(OutRows) :
            LET self_rate == OutRows[i]["self_rate"]
                other_rate == OutRows[i]["other_rate"]
                abs_diff == OutRows[i]["abs_diff"]
            IN  IF self_rate = NaN \/ other_rate = NaN
                THEN abs_diff = NaN
                ELSE /\ abs_diff # NaN
                     /\ abs_diff[1] >= 0
                     /\ \/ abs_diff[1] = self_rate[1] - other_rate[1]
                        \/ abs_diff[1] = other_rate[1] - self_rate[1]

\* C23 witness: anchor "other" and lock "offset"; one row has a self_rate
\* below its other_rate and a positive abs_diff, another has no partner.
C23_Witness ==
    /\ MetadataDone
    /\ anchor = "other"
    /\ time_lock = "offset"
    /\ \E i \in 1..Len(OutRows) : \E k \in 1..Len(OutRows) :
          /\ OutRows[i]["self_rate"] # NaN
          /\ OutRows[i]["self_rate"][1] < OutRows[i]["other_rate"][1]
          /\ OutRows[i]["abs_diff"]
                 = Float(OutRows[i]["other_rate"][1] - OutRows[i]["self_rate"][1])
          /\ OutRows[k]["self_rate"] = NaN
          /\ OutRows[k]["abs_diff"] = NaN

---------------------------------------------------------------------------
(* Claims about the first pass of build_ipu_segments_from_tokens           *)
(* (specification SpecUnsorted)                                            *)

ActivityAt(i) ==
    is_token_in_ipu(tokens[i].text, include_laughter, include_noise,
                    include_filled_pause)

\* the positions that open a maximal block of consecutive activity tokens
BlockStarts ==
    {i \in 1..Len(tokens) : ActivityAt(i) /\ (i = 1 \/ ~ActivityAt(i - 1))}

\* the last position of the block opened at b
BlockEnd(b) ==
    SetMax({j \in b..Len(tokens) : \A k \in b..j : ActivityAt(k)})

\* the k-th block opening, in sequence order
BlockStart(k) ==
    CHOOSE b \in BlockStarts : Cardinality({x \in BlockStarts : x <= b}) = k

\* C24 (run detection): the first pass yields one raw run per maximal block
\* of consecutive activity tokens of the input sequence, in sequence order,
\* equal to (start of the block's first token, maximum end over the block);
\* a background token closes the open run, a run open at the end is kept,
\* the time gap between consecutive activity tokens does not split a run,
\* and a list without activity tokens yields no run.
C24_RunDetection ==
    pc = "built" =>
        LET raw == RawRuns
        IN  /\ Len(raw) = Cardinality(BlockStarts)
            /\ \A k \in 1..Len(raw) :
                   LET b == BlockStart(k)
                   IN  raw[k] = <<tokens[b].start,
                                  SetMax({tokens[j].end : j \in b..BlockEnd(b)})>>
            /\ (\A i \in 1..Len(tokens) : ~ActivityAt(i)) => raw = <<>>

\* C24 witness: two consecutive activity tokens, the first ending after the
\* second, then a background token; one raw run from the first token's
\* start to the first token's end.
C24_Witness ==
    /\ pc = "built"
    /\ Len(tokens) = 3
    /\ ActivityAt(1) /\ ActivityAt(2) /\ ~ActivityAt(3)
    /\ tokens[2].end < tokens[1].end
    /\ RawRuns = <<<<tokens[1].start, tokens[1].end>>>>

---------------------------------------------------------------------------
(* Specification SpecPipeline: the two calls of palign_to_ipu.run, on a    *)
(* token list in any order and with valid arguments only.  The builder     *)
(* never reads the times of a background token, so background tokens are   *)
(* drawn with one interval.                                                *)

PipeTokens ==
    {Interval(s, e, <<"a">>) : s \in TokenTimes, e \in TokenTimes}
        \cup {Interval(0, 0, SILENCE_LABEL)}

FeedToken ==
    /\ pc = "read"
    /\ Len(tokens) < MaxPipeTokens
    /\ \E itv \in PipeTokens :
          /\ itv.start <= itv.end
          /\ tokens' = Append(tokens, itv)
    /\ UNCHANGED <<pc, include_laughter, include_noise, include_filled_pause,
                   min_silence_s, segments>>
    /\ UNCHANGED <<tierVars, metaVars, eventVars>>
    /\ UNCHANGED <<classifyVars, inferVars, rerenderVars, rebuildVars>>
    /\ UNCHANGED entryVars

BuildValid ==
    /\ pc = "read"
    /\ \E ms \in 0..1 :
          /\ min_silence_s' = ms
          /\ segments' = build_ipu_segments_from_tokens(
                             tokens, include_laughter, include_noise,
                             include_filled_pause, ms)
    /\ pc' = "built"
    /\ UNCHANGED <<tokens, include_laughter, include_noise, include_filled_pause>>
    /\ UNCHANGED <<tierVars, metaVars, eventVars>>
    /\ UNCHANGED <<classifyVars, inferVars, rerenderVars, rebuildVars>>
    /\ UNCHANGED entryVars

RenderValid ==
    /\ pc = "built"
    /\ \E ts \in TokenTimes, te \in TokenTimes, mi \in 0..1 :
          /\ ts <= te
          /\ t_start' = ts
          /\ t_end' = te
          /\ min_ipu_s' = mi
          /\ ipu_segments' = segments.value
          /\ tier' = apply_min_ipu_and_render_full_tier(
                         ts, te, segments.value, mi, IPU_LABEL, SILENCE_LABEL)
    /\ pc' = "tiered"
    /\ UNCHANGED <<buildVars, metaVars, eventVars>>
    /\ UNCHANGED <<classifyVars, inferVars, rerenderVars, rebuildVars>>
    /\ UNCHANGED entryVars

NextPipeline == FeedToken \/ BuildValid \/ RenderValid

SpecPipeline == InitBuild /\ [][NextPipeline]_vars

\* C25 (pipeline composition): for tokens with end >= start in any order,
\* min_silence_s >= 0, min_ipu_s >= 0 and t_start <= t_end, the runs of
\* build_ipu_segments_from_tokens are in ascending order, each starting at
\* or after the end of the one before, and the tier rendered from them has
\* only intervals of positive duration, each ending where the next starts.
C25_PipelineComposition ==
    /\ pc \in {"built", "tiered"} =>
           /\ segments.ok
           /\ \A k \in 1..Len(segments.value) :
                  segments.value[k][1] <= segments.value[k][2]
           /\ \A k \in 1..(Len(segments.value) - 1) :
                  /\ segments.value[k][1] <= segments.value[k + 1][1]
                  /\ segments.value[k][2] <= segments.value[k + 1][1]
    /\ pc = "tiered" =>
           /\ tier.ok
           /\ \A i \in 1..Len(tier.value) :
                  tier.value[i].start < tier.value[i].end
           /\ \A i \in 1..(Len(tier.value) - 1) :
                  tier.value[i].end = tier.value[i + 1].start

\* C25 witness: the tokens are not sorted, the builder returns two runs and
\* the tier has two intervals that share a boundary.
C25_Witness ==
    /\ pc = "tiered"
    /\ ~IsSortedByKey(tokens)
    /\ Len(segments.value) = 2
    /\ tier.ok
    /\ Len(tier.value) = 2
    /\ tier.value[1].end = tier.value[2].start

---------------------------------------------------------------------------
(* Claims about the bounds of the rendered tier (specification SpecTier)   *)

\* C26 (boundary robustness): for any segment list, min_ipu_s >= 0 and
\* t_start <= t_end, every interval of the tier has end > start and lies in
\* [t_start, t_end]; when t_end > t_start the tier is not empty, starts at
\* t_start and ends at t_end; when t_end = t_start the tier is empty.
C26_BoundaryRobustness ==
    TierDone =>
        LET out == tier.value
        IN  /\ \A i \in 1..Len(out) :
                   /\ out[i].end > out[i].start
                   /\ t_start <= out[i].start
                   /\ out[i].end <= t_end
            /\ t_end > t_start =>
                   /\ out # <<>>
                   /\ out[1].start = t_start
                   /\ out[Len(out)].end = t_end
            /\ t_end = t_start => out = <<>>

\* C26 witness: a malformed segment and a segment that overlaps the
\* timeline on both sides; the tier is the one activity interval
\* [t_start, t_end].
C26_Witness ==
    /\ TierDone
    /\ t_start < t_end
    /\ Len(ipu_segments) = 2
    /\ ipu_segments[1][2] < ipu_segments[1][1]
    /\ ipu_segments[2][1] < t_start
    /\ t_end < ipu_segments[2][2]
    /\ tier.value = <<Interval(t_start, t_end, IPU_LABEL)>>

---------------------------------------------------------------------------
(* Specification SpecEntry: make_metadata_and_events_from_self_ipu, one    *)
(* action per step.  The arguments and the state of the disk are drawn in  *)
(* Init; the content of the two CSV files and of the raw recording is      *)
(* drawn when they are read.                                               *)

\* one tick is 1/TicksPerSecond s
TicksPerSecond == 10

EntryStems ==
    {Stem(<<"0", "0", "1">>, <<>>, <<"3">>),
     Stem(<<"0", "1">>, <<>>, <<"3">>)}

EntryMargins == {<<"float", 1>>, <<"float", 0>>, <<"nan", 0>>}

EntryRows ==
    {IpuRow(0, 1, "a"), IpuRow(1, 2, PLACEHOLDER_ANNOTATION), IpuRow(1, 3, "a"),
     [IpuRow(0, 2, "a") EXCEPT !["start"] = NaNTime]}

EntryTables ==
    {DataFrame(IpuColumns, rows) : rows \in SeqsUpTo(EntryRows, MaxEntryRows)}
        \cup {DataFrame(IpuColumns \ {"rate"}, <<>>)}

\* the timestamp column as pd.to_numeric reads it
TimestampCells(df) ==
    DataFrame(df.columns,
              [i \in 1..Len(df.rows) |->
                  [df.rows[i] EXCEPT !["timestamp"] =
                      IF @ = NaNTime THEN Cell("nan", 0, 1)
                      ELSE Cell("float", @, TicksPerSecond)]])

InitEntry ==
    /\ pc = "entry"
    /\ raw_given \in BOOLEAN
    /\ partner_exists \in BOOLEAN
    /\ raw_readable \in BOOLEAN
    /\ ipu_path \in EntryStems
    /\ partner = NotCalled
    /\ time_lock \in TimeLockArgs
    /\ anchor \in AnchorArgs
    /\ \E mg \in EntryMargins : margin_kind = mg[1] /\ margin_s = mg[2]
    /\ self_ipu = DataFrame(IpuColumns, <<>>)
    /\ other_ipu = DataFrame(IpuColumns, <<>>)
    /\ metadata = NotCalled
    /\ tsv_file = <<>>
    /\ npy_file = <<>>
    /\ entry_error = ""
    /\ steps = <<>>
    /\ EventIdle
    /\ TierIdle
    /\ BuildIdle
    /\ ClassifyIdle
    /\ RerenderIdle
    /\ RebuildIdle

\* Variant of the first step: the raw path argument is not checked.
CheckRawPathNever ==
    /\ pc = "entry"
    /\ steps' = Append(steps, "check raw path")
    /\ pc' = "locate"
    /\ UNCHANGED <<raw_given, partner_exists, raw_readable, tsv_file, npy_file,
                   entry_error>>
    /\ UNCHANGED <<tierVars, buildVars, metaVars, eventVars>>
    /\ UNCHANGED <<classifyVars, inferVars, rerenderVars, rebuildVars>>

\* selected_raw_fif_path = raw_fif_path or raw_path; raise if it is None
CheckRawPath ==
    /\ pc = "entry"
    /\ steps' = Append(steps, "check raw path")
    /\ IF raw_given
       THEN pc' = "locate" /\ entry_error' = entry_error
       ELSE pc' = "failed" /\ entry_error' = "ValueError"
    /\ UNCHANGED <<raw_given, partner_exists, raw_readable, tsv_file, npy_file>>
    /\ UNCHANGED <<tierVars, buildVars, metaVars, eventVars>>
    /\ UNCHANGED <<classifyVars, inferVars, rerenderVars, rebuildVars>>

\* _load_partner_ipu_tables: infer_partner_ipu_path, then the test that the
\* partner file exists
LocatePartner ==
    /\ pc = "locate"
    /\ steps' = Append(steps, "locate partner")
    /\ partner' = infer_partner_id_and_run_from_ipu_path(ipu_path)
    /\ IF ~partner'.ok
       THEN pc' = "failed" /\ entry_error' = partner'.error
       ELSE IF ~partner_exists
       THEN pc' = "failed" /\ entry_error' = "FileNotFoundError"
       ELSE pc' = "load" /\ entry_error' = entry_error
    /\ UNCHANGED <<ipu_path, raw_given, partner_exists, raw_readable, tsv_file,
                   npy_file>>
    /\ UNCHANGED <<tierVars, buildVars, metaVars, eventVars>>
    /\ UNCHANGED <<classifyVars, rerenderVars, rebuildVars>>

\* _load_partner_ipu_tables: the two pd.read_csv calls
LoadTables ==
    /\ pc = "load"
    /\ steps' = Append(steps, "load tables")
    /\ self_ipu' \in EntryTables
    /\ other_ipu' \in EntryTables
    /\ pc' = "metadata"
    /\ UNCHANGED <<time_lock, anchor, margin_s, margin_kind, metadata>>
    /\ UNCHANGED <<raw_given, partner_exists, raw_readable, tsv_file, npy_file,
                   entry_error>>
    /\ UNCHANGED <<tierVars, buildVars, eventVars>>
    /\ UNCHANGED <<classifyVars, inferVars, rerenderVars, rebuildVars>>

BuildMetadata ==
    /\ pc = "metadata"
    /\ steps' = Append(steps, "build metadata")
    /\ metadata' = make_metadata(self_ipu, other_ipu, time_lock, anchor,
                                 margin_kind, margin_s)
    /\ IF metadata'.ok
       THEN pc' = "save_tsv" /\ entry_error' = entry_error
       ELSE pc' = "failed" /\ entry_error' = metadata'.error
    /\ UNCHANGED <<self_ipu, other_ipu, time_lock, anchor, margin_s, margin_kind>>
    /\ UNCHANGED <<raw_given, partner_exists, raw_readable, tsv_file, npy_file>>
    /\ UNCHANGED <<tierVars, buildVars, eventVars>>
    /\ UNCHANGED <<classifyVars, inferVars, rerenderVars, rebuildVars>>

\* _save_metadata_tsv
SaveMetadataTsv ==
    /\ pc = "save_tsv"
    /\ steps' = Append(steps, "write metadata")
    /\ tsv_file' = <<metadata.value>>
    /\ pc' = "read_raw"
    /\ UNCHANGED <<raw_given, partner_exists, raw_readable, npy_file, entry_error>>
    /\ UNCHANGED <<tierVars, buildVars, metaVars, eventVars>>
    /\ UNCHANGED <<classifyVars, inferVars, rerenderVars, rebuildVars>>

\* _build_events_from_raw_and_metadata: mne.io.read_raw, then
\* metadata_df_to_mne_events with the recording's sfreq and first_samp
BuildEvents ==
    /\ pc = "read_raw"
    /\ steps' = Append(steps, "read raw")
    /\ IF raw_readable
       THEN /\ \E sf \in {5, 100}, fs \in {0, 10} :
                  /\ sfreq_hz' = sf
                  /\ first_samp' = fs
                  /\ events' = metadata_df_to_mne_events(
                                   TimestampCells(metadata.value), sf, fs,
                                   "timestamp", event_id)
            /\ metadata_df' = TimestampCells(metadata.value)
            /\ pc' = "save_npy"
            /\ entry_error' = entry_error
       ELSE /\ pc' = "failed"
            /\ entry_error' = "read_raw error"
            /\ UNCHANGED <<metadata_df, sfreq_hz, first_samp, events>>
    /\ UNCHANGED event_id
    /\ UNCHANGED <<raw_given, partner_exists, raw_readable, tsv_file, npy_file>>
    /\ UNCHANGED <<tierVars, buildVars, metaVars>>
    /\ UNCHANGED <<classifyVars, inferVars, rerenderVars, rebuildVars>>

\* _save_events_npy
SaveEventsNpy ==
    /\ pc = "save_npy"
    /\ steps' = Append(steps, "write events")
    /\ npy_file' = <<events.value>>
    /\ pc' = "finished"
    /\ UNCHANGED <<raw_given, partner_exists, raw_readable, tsv_file, entry_error>>
    /\ UNCHANGED <<tierVars, buildVars, metaVars, eventVars>>
    /\ UNCHANGED <<classifyVars, inferVars, rerenderVars, rebuildVars>>

NextEntry ==
    \/ CheckRawPath
    \/ LocatePartner
    \/ LoadTables
    \/ BuildMetadata
    \/ SaveMetadataTsv
    \/ BuildEvents
    \/ SaveEventsNpy

SpecEntry == InitEntry /\ [][NextEntry]_vars

EntryOrder ==
    <<"check raw path", "locate partner", "load tables", "build metadata",
      "write metadata", "read raw", "write events">>

EntryEnded == pc \in {"failed", "finished"}

\* C27 (entry-point ordering): the steps taken are always the first steps of
\* check raw path, locate partner, load tables, build metadata, write
\* metadata, read raw, write events; a call without raw path, with an
\* unmatched file name, without partner file (FileNotFoundError) or with
\* invalid alignment arguments ends in an error with no file written; the
\* events file is only ever written after the metadata TSV.
C27_EntryPointOrdering ==
    /\ Len(steps) <= Len(EntryOrder)
    /\ steps = SubSeq(EntryOrder, 1, Len(steps))
    /\ npy_file # <<>> => tsv_file # <<>>
    /\ tsv_file # <<>> =>
           /\ raw_given
           /\ partner.ok
           /\ partner_exists
           /\ ~InvalidArgs
    /\ EntryEnded =>
           /\ ~raw_given => entry_error = "ValueError" /\ Len(steps) = 1
           /\ (raw_given /\ ~partner.ok) =>
                  entry_error = "RuntimeError" /\ Len(steps) = 2
           /\ (raw_given /\ partner.ok /\ ~partner_exists) =>
                  entry_error = "FileNotFoundError" /\ Len(steps) = 2
           /\ (raw_given /\ partner.ok /\ partner_exists /\ InvalidArgs) =>
                  entry_error = "ValueError" /\ Len(steps) = 4
           /\ entry_error \in {"ValueError", "RuntimeError", "FileNotFoundError"}
                  => tsv_file = <<>> /\ npy_file = <<>>

\* C27 witness: a call that went through all seven steps and wrote both
\* files.
C27_Witness ==
    /\ pc = "finished"
    /\ steps = EntryOrder
    /\ tsv_file = <<metadata.value>>
    /\ npy_file = <<events.value>>
    /\ entry_error = ""

---------------------------------------------------------------------------
(* Claims on SpecMeta: ties and the latency bound                          *)

\* the candidates of P at minimal distance from o
Nearest(P, cands, o) ==
    {j \in cands : \A k \in cands :
        Abs(o - Target(P[j])) <= Abs(o - Target(P[k]))}

SetMin(S) == CHOOSE x \in S : \A y \in S : x <= y

\* C28 (tie-break): when several candidate partner rows are at the same
\* minimal distance from the anchor origin, the output row carries the
\* features and the latency of the one that comes first in the partner
\* table, for both lock modes and both anchor roles.
C28_TieBreak ==
    MetadataDone =>
        LET P == Retained(PartnerTable)
        IN  \A i \in 1..Len(OutRows) :
                LET o == OutRows[i]["timestamp"]
                    cands == Candidates(P, o)
                IN  cands # {} =>
                        LET first == P[SetMin(Nearest(P, cands, o))]
                        IN  /\ \A c \in {"duration", "n_syllables", "rate"} :
                                   OutRows[i][PartnerPrefix \o "_" \o c] = first[c]
                            /\ OutRows[i]["latency"] = Float(o - Target(first))

\* C28 witness: two candidates at the same distance on either side of the
\* origin, with different rates; the row carries the rate and the latency
\* of the one that comes first.
C28_Witness ==
    /\ MetadataDone
    /\ \E i \in 1..Len(OutRows) :
          LET o == OutRows[i]["timestamp"]
              P == Retained(PartnerTable)
          IN  \E j \in Candidates(P, o) : \E k \in Candidates(P, o) :
                  /\ j < k
                  /\ Candidates(P, o) = {j, k}
                  /\ Target(P[j]) # Target(P[k])
                  /\ Abs(o - Target(P[j])) = Abs(o - Target(P[k]))
                  /\ P[j]["rate"] # P[k]["rate"]
                  /\ OutRows[i][PartnerPrefix \o "_rate"] = P[j]["rate"]
                  /\ OutRows[i]["latency"] = Float(o - Target(P[j]))

\* C29 (latency bound): every output row that has a matched partner has
\* -margin_s < latency <= margin_s, for both lock modes and both anchor
\* roles.
C29_LatencyBound ==
    MetadataDone =>
        \A i \in 1..Len(OutRows) :
            LET lat == OutRows[i]["latency"]
            IN  lat # NaN =>
                    /\ 0 - margin_s < lat[1]
                    /\ lat[1] <= margin_s

\* C29 witness: anchor "other" and lock "offset" with the largest margin;
\* a row has the latency margin_s, the closed end of the bound.
C29_Witness ==
    /\ MetadataDone
    /\ anchor = "other"
    /\ time_lock = "offset"
    /\ margin_s = MaxMargin
    /\ \E i \in 1..Len(OutRows) : OutRows[i]["latency"] = Float(margin_s)

---------------------------------------------------------------------------
(* Claims on SpecEntry: the events and the metadata rows                   *)

EventsBuilt == pc \in {"save_npy", "finished"}

\* the positions of the metadata rows whose timestamp is finite
FiniteStamped(rows) == {i \in 1..Len(rows) : rows[i]["timestamp"] # NaNTime}

\* sample s is a nearest integer of timestamp * sfreq_hz, first_samp added
NearestSample(s, stamp) ==
    2 * Abs(TicksPerSecond * (s - first_samp) - stamp * sfreq_hz)
        <= TicksPerSecond

\* C30 (events stay aligned with metadata): the entry point never builds
\* more events than the metadata table has rows; the k-th event is
\* [sample, 0, event_id] with the sample of the k-th row that has a finite
\* timestamp; so when every row has a finite timestamp there are as many
\* events as rows and the i-th event comes from the i-th row.
C30_EventsAligned ==
    EventsBuilt =>
        LET rows == metadata.value.rows
            ev == events.value
            finite == FiniteStamped(rows)
        IN  /\ events.ok
            /\ Len(ev) <= Len(rows)
            /\ Len(ev) = Cardinality(finite)
            /\ \A i \in finite :
                   LET k == Cardinality({j \in finite : j <= i})
                   IN  /\ NearestSample(ev[k][1], rows[i]["timestamp"])
                       /\ ev[k][2] = 0
                       /\ ev[k][3] = event_id
            /\ Cardinality(finite) = Len(rows) =>
                   /\ Len(ev) = Len(rows)
                   /\ \A i \in 1..Len(rows) :
                          NearestSample(ev[i][1], rows[i]["timestamp"])

\* C30 witness: both files are written; the metadata table has two rows
\* with different finite timestamps, the first at zero, and there are two
\* events with different samples.
C30_Witness ==
    /\ pc = "finished"
    /\ Len(metadata.value.rows) = 2
    /\ FiniteStamped(metadata.value.rows) = {1, 2}
    /\ metadata.value.rows[1]["timestamp"] = 0
    /\ metadata.value.rows[2]["timestamp"] > 0
    /\ Len(events.value) = 2
    /\ events.value[1][1] < events.value[2][1]
    /\ npy_file = <<events.value>>

=============================================================================
